---- MODULE Spec2Model ----
(***************************************************************************)
(* Model of the twin build loop: build() of src/build.js in its latest     *)
(* revision (src/unnamed/part_009) with the steering intake processSteer,  *)
(* the planner call runPlan (src/unnamed/part_011) and the taste-profile   *)
(* lock (src/unnamed/part_007).                                            *)
(*                                                                         *)
(* One controller process is modelled, one action per stretch of code      *)
(* between two await points.  Its environment is the agent subprocess, the *)
(* model calls, the user (SIGINT, writes to steer.md) and the clock.       *)
(***************************************************************************)
EXTENDS Integers, Sequences, FiniteSets, TLC

\* ---------------------------------------------------------------- bounds
\* Largest --stories value enumerated.
MaxQuota == 2
\* Largest ledger length: initial ledgers have up to MaxItems items, and
\* steering and the planner add items while there is room.
MaxItems == 3
\* Largest number of items one model response (steering, planner) carries.
MaxNew == 1
\* Largest --minutes value enumerated (the clock counts minutes).
MaxMinutes == 1
\* Number of passes of the while loop a behaviour may start.
MaxIters == 3
\* Number of writes to steer.md the user makes during the run.
MaxMsgs == 1
\* Number of steering applications running in separate processes.
NumApps == 2
\* Largest number of lines in the agent's output, of characters of text in
\* them, and of bytes in one chunk.
MaxRecs == 2
MaxText == 4
MaxChunk == 8

\* ------------------------------------------------------ program constants
STORY_RETRIES_fourth == 2 + 1
STORY_RETRIES == 2

STORY_RETRY_DELAYS_swapped == <<30000, 10000>>
STORY_RETRY_DELAYS == <<10000, 30000>>

MAX_RETRIES_more == 5 + 1
MAX_RETRIES == 5

PLAN_RETRIES == 2

\* The processes applying a steering response with a twinAppend.
Apps == 1..NumApps

VARIABLES
  \* build() parameters
  maxStories, loop, maxMinutes,
  \* files
  twinExists, prdExists, prdFile, steerFile, twinBlocks, twinLock, runMarker,
  \* build() locals and process state
  pc, stopping, totalBuilt, cycle, attempt, elapsed, exitCode,
  \* processSteer() locals
  steerPrd, steerText, lockTries,
  \* observation of the run (not read by the program)
  stopReason, exitFrom, summaries, reported, iters, msgs,
  codes, delays, spawns, cycleNotes, gain, buildCycles, marked, ranPast,
  sigCount, sigPc, sigSpawns, initOpen, agentLevel, retryOf,
  \* the newStories of the response being applied, the largest id number the
  \* ledger has held so far, and the largest one steering has added so far
  steerResp, maxEver, lastSteerId,
  \* steering applications in separate processes appending to the taste
  \* profile: where each one is, the creates of <twin>.lock it has seen fail,
  \* the profile text it has read; the profile (its content at the start,
  \* written 0, followed by the blocks appended to it, each the pid of its writer),
  \* the lock file (0 absent, else the pid written into it), and the
  \* applications that went on without having created the lock
  appPc, appTries, appRead, twinText, lockFile, staleEntered,
  \* calls of logPriorityJustification in the current pass of the loop
  justCalls,
  \* the last read, write or model-call failure met in the current pass of the
  \* loop, "none" when none was
  lastFault,
  \* runIteration(): where the agent channel is, the bytes the agent writes to
  \* its stdout over its run, how many of them have been delivered in chunks,
  \* the locals buffer, output (the result string), statusLine and atLineStart,
  \* and what the channel has written to the terminal and not erased
  chPc, stream, streamPos, buffer, output, statusLine, atLineStart, shown,
  \* the last summary line printed
  printed,
  \* the steering messages whose items have been written to the ledger
  appliedMsgs,
  \* runPlan(): the attempt of its model call
  planAttempt,
  \* steer(): where the steer command is, the message it was given (0: none),
  \* and the build it has started with its parameters
  cmdPc, cmdMessage, cmdBuild,
  \* whether the result of the last agent invocation held a sentinel, and the
  \* open count of its "Story done. N open in prd.json." line (-1: no line)
  sawSignal, doneNote,
  \* build(): the taste profile (its appended blocks) and the ledger as last
  \* read by the loop, and the prompt built from them for the agent
  twinContent, currentPrdContent, prompt,
  \* a second build process in the same directory: not started, running, or ended
  otherPc

vars == <<maxStories, loop, maxMinutes,
          twinExists, prdExists, prdFile, steerFile, twinBlocks, twinLock,
          runMarker, pc, stopping, totalBuilt, cycle, attempt, elapsed,
          exitCode, steerPrd, steerText, lockTries,
          stopReason, exitFrom, summaries, reported, iters, msgs,
          codes, delays, spawns, cycleNotes, gain, buildCycles, marked,
          ranPast, sigCount, sigPc, sigSpawns, initOpen, agentLevel, retryOf,
          steerResp, maxEver, lastSteerId,
          appPc, appTries, appRead, twinText, lockFile, staleEntered,
          justCalls,
          lastFault,
          chPc,
          stream,
          streamPos,
          buffer,
          output,
          statusLine,
          atLineStart,
          shown,
          printed,
          appliedMsgs,
          planAttempt,
          cmdPc,
          cmdMessage,
          cmdBuild,
          sawSignal,
          doneNote,
          twinContent,
          currentPrdContent,
          prompt,
          otherPc>>

\* ---------------------------------------------------------------- helpers
Min(a, b) == IF a <= b THEN a ELSE b

Max(a, b) == IF a >= b THEN a ELSE b

\* prd.userStories.filter((s) => s.status !== 'done')
OpenIdx(prd) == {i \in 1..Len(prd) : prd[i].status # "done"}

Remaining(prd) == Cardinality(OpenIdx(prd))

\* maxNum of processSteer: the largest number found in an id, 0 when none.
RECURSIVE MaxNum(_)
MaxNum(prd) ==
  IF prd = <<>> THEN 0 ELSE Max(Head(prd).id, MaxNum(Tail(prd)))

NextNum(prd) == MaxNum(prd) + 1

\* timeLimitMs = maxMinutes ? maxMinutes * 60 * 1000 : null  (0 stands for null)
TimeLimitMs == IF maxMinutes # 0 THEN maxMinutes * 60 * 1000 ELSE 0

\* timeLimitMs && (Date.now() - startTime) >= timeLimitMs; elapsed is in minutes
TimeLimitReached == TimeLimitMs # 0 /\ elapsed * 60000 >= TimeLimitMs

\* while (totalBuilt < maxStories)
LoopCond_offByOne == totalBuilt <= maxStories
LoopCond_ignoresQuota == totalBuilt < maxStories \/ loop
LoopCond == totalBuilt < maxStories

\* summary(): `${totalBuilt} stories built${cycleNote}${time}`, as the numbers
\* the line holds; the cycle count is left out unless above 1, the minutes
\* unless above 0.
summary(built, cycles, mins) ==
  [built |-> built,
   cycleNote |-> IF cycles > 1 THEN {cycles} ELSE {},
   time |-> IF mins > 0 THEN {mins} ELSE {}]

\* console.log(summary(totalBuilt, cycle, Date.now() - startTime))
PrintSummary ==
  /\ summaries' = summaries + 1
  /\ reported' = totalBuilt
  /\ printed' = summary(totalBuilt, cycle, elapsed)

NoSummary == UNCHANGED <<summaries, reported, printed>>

\* process.exit(code), or build() returning and the process ending with code
\* 0; the 'exit' handler unlinks the run marker either way.
Exit_keepsMarker(code, reason) ==
  /\ pc' = "exited"
  /\ exitCode' = code
  /\ stopReason' = reason
  /\ exitFrom' = pc
  /\ UNCHANGED runMarker

Exit(code, reason) ==
  /\ pc' = "exited"
  /\ exitCode' = code
  /\ stopReason' = reason
  /\ exitFrom' = pc
  /\ runMarker' = FALSE

\* The controller moves on to `next` within the process.
Goto(next) ==
  /\ pc' = next
  /\ UNCHANGED <<exitCode, stopReason, exitFrom, runMarker>>

\* ------------------------------------------------------------------- Init
\* Ledgers as the planner leaves them and earlier runs have worked on them:
\* ids 1..n in order, the first d items done.
InitLedgers ==
  { [i \in 1..n |-> [id |-> i, status |-> IF i <= d THEN "done" ELSE "open"]] :
      n \in 0..MaxItems, d \in 0..MaxItems }

Init ==
  /\ maxStories \in 0..MaxQuota
  /\ loop \in BOOLEAN
  /\ maxMinutes \in 0..MaxMinutes
  /\ twinExists \in BOOLEAN
  /\ prdExists \in BOOLEAN
  /\ prdFile \in InitLedgers
  /\ prdExists = FALSE => prdFile = <<>>
  /\ twinExists = FALSE => (prdExists /\ prdFile = <<>>)
  /\ steerFile = 0
  /\ twinBlocks = 0
  /\ twinLock = "none"
  /\ runMarker = FALSE
  /\ pc = "start"
  /\ stopping = FALSE
  /\ totalBuilt = 0
  /\ cycle = 1
  /\ attempt = 0
  /\ elapsed = 0
  /\ exitCode = -1
  /\ steerPrd = <<>>
  /\ steerText = 0
  /\ lockTries = 0
  /\ stopReason = "none"
  /\ exitFrom = "none"
  /\ summaries = 0
  /\ reported = -1
  /\ iters = 0
  /\ msgs = 0
  /\ codes = <<>>
  /\ delays = <<>>
  /\ spawns = 0
  /\ cycleNotes = 0
  /\ gain = 0
  /\ buildCycles = 0
  /\ marked = 0
  /\ ranPast = FALSE
  /\ sigCount = 0
  /\ sigPc = "none"
  /\ sigSpawns = 0
  /\ initOpen = Remaining(prdFile)
  /\ agentLevel = "clean"
  /\ retryOf = "none"
  /\ steerResp = <<>>
  /\ maxEver = MaxNum(prdFile)
  /\ lastSteerId = 0
  /\ appPc = [p \in Apps |-> "idle"]
  /\ appTries = [p \in Apps |-> 0]
  /\ appRead = [p \in Apps |-> <<>>]
  /\ twinText = <<0>>
  /\ lockFile = 0
  /\ staleEntered = {}
  /\ justCalls = 0
  /\ lastFault = "none"
  /\ chPc = "idle"
  /\ stream = <<>>
  /\ streamPos = 0
  /\ buffer = <<>>
  /\ output = <<>>
  /\ statusLine = FALSE
  /\ atLineStart = TRUE
  /\ shown = <<>>
  /\ printed = [built |-> -1, cycleNote |-> {}, time |-> {}]
  /\ appliedMsgs = {}
  /\ planAttempt = 0
  /\ cmdPc = "idle"
  /\ cmdMessage = 0
  /\ cmdBuild = [maxStories |-> 0, loop |-> FALSE, maxMinutes |-> 0, started |-> FALSE]
  /\ sawSignal = FALSE
  /\ doneNote = -1
  /\ twinContent = 0
  /\ currentPrdContent = <<>>
  /\ prompt = [twin |-> 0, prd |-> <<>>]
  /\ otherPc = "idle"

\* ------------------------------------------------------ build(): set-up
\* writeFile(lockPath, pid); process.on('exit', unlink); process.on('SIGINT', ...)
Setup ==
  /\ pc = "start"
  /\ runMarker' = TRUE
  /\ pc' = "preflight"
  /\ UNCHANGED <<maxStories, loop, maxMinutes, twinExists, prdExists, prdFile,
                 steerFile, twinBlocks, twinLock, stopping, totalBuilt, cycle,
                 attempt, elapsed, exitCode, steerPrd, steerText, lockTries,
                 stopReason, exitFrom, summaries, reported, iters, msgs,
                 codes, delays, spawns, cycleNotes, gain, buildCycles, marked,
                 ranPast, sigCount, sigPc, sigSpawns, initOpen, agentLevel,
                 retryOf, steerResp, maxEver, lastSteerId, appPc, appTries,
                 appRead, twinText, lockFile, staleEntered, justCalls,
                 lastFault, chPc, stream, streamPos, buffer, output,
                 statusLine, atLineStart, shown, printed, appliedMsgs,
                 planAttempt, cmdPc, cmdMessage, cmdBuild, sawSignal,
                 doneNote, twinContent, currentPrdContent, prompt, otherPc>>

\* findTwinFile, readIfExists(prd.json), the pre-loop open check
Preflight ==
  /\ pc = "preflight"
  /\ IF ~twinExists THEN Exit(1, "no_twin")
     ELSE IF ~prdExists THEN Exit(1, "no_prd")
     ELSE IF Remaining(prdFile) = 0 /\ ~loop THEN Exit(0, "all_done")
     ELSE Goto("top")
  /\ UNCHANGED <<maxStories, loop, maxMinutes, twinExists, prdExists, prdFile,
                 steerFile, twinBlocks, twinLock, stopping, totalBuilt, cycle,
                 attempt, elapsed, steerPrd, steerText, lockTries, summaries,
                 reported, iters, msgs, codes, delays, spawns, cycleNotes,
                 gain, buildCycles, marked, ranPast, sigCount, sigPc,
                 sigSpawns, initOpen, agentLevel, retryOf, steerResp, maxEver,
                 lastSteerId, appPc, appTries, appRead, twinText, lockFile,
                 staleEntered, justCalls, lastFault, chPc, stream, streamPos,
                 buffer, output, statusLine, atLineStart, shown, printed,
                 appliedMsgs, planAttempt, cmdPc, cmdMessage, cmdBuild,
                 sawSignal, doneNote, twinContent, currentPrdContent, prompt,
                 otherPc>>

\* ------------------------------------------------ build(): top of the loop
\* while (totalBuilt < maxStories) { if (stopping) { ...; break } ... and,
\* once the loop is left, the "Done" block and the return of build().
\* A new pass starts with the loop's locals fresh.
LoopTop_skipsIntake ==
  /\ pc = "top"
  /\ IF ~LoopCond
       THEN /\ IF totalBuilt > 0 /\ totalBuilt >= maxStories
                 THEN PrintSummary ELSE NoSummary
            /\ Exit(0, "quota")
            /\ UNCHANGED <<iters, attempt, codes, delays, spawns, cycleNotes, gain,
                           justCalls, lastFault>>
       ELSE IF stopping
         THEN /\ PrintSummary
              /\ Exit(0, "interrupted")
              /\ UNCHANGED <<iters, attempt, codes, delays, spawns, cycleNotes, gain,
                           justCalls, lastFault>>
         ELSE /\ iters < MaxIters
              /\ iters' = iters + 1
              /\ attempt' = 0
              /\ codes' = <<>>
              /\ delays' = <<>>
              /\ spawns' = 0
              /\ cycleNotes' = 0
              /\ gain' = 0
              /\ justCalls' = 0
              /\ lastFault' = "none"
              /\ Goto("select")
              /\ NoSummary
  /\ UNCHANGED <<maxStories, loop, maxMinutes, twinExists, prdExists, prdFile,
                 steerFile, twinBlocks, twinLock, stopping, totalBuilt, cycle,
                 elapsed, steerPrd, steerText, lockTries, msgs, buildCycles,
                 marked, ranPast, sigCount, sigPc, sigSpawns, initOpen,
                 agentLevel, retryOf, steerResp, maxEver, lastSteerId, appPc,
                 appTries, appRead, twinText, lockFile, staleEntered, chPc,
                 stream, streamPos, buffer, output, statusLine, atLineStart,
                 shown, appliedMsgs, planAttempt, cmdPc, cmdMessage, cmdBuild,
                 sawSignal, doneNote, twinContent, currentPrdContent, prompt,
                 otherPc>>

LoopTop ==
  /\ pc = "top"
  /\ IF ~LoopCond
       THEN /\ IF totalBuilt > 0 /\ totalBuilt >= maxStories
                 THEN PrintSummary ELSE NoSummary
            /\ Exit(0, "quota")
            /\ UNCHANGED <<iters, attempt, codes, delays, spawns, cycleNotes, gain,
                           justCalls, lastFault>>
       ELSE IF stopping
         THEN /\ PrintSummary
              /\ Exit(0, "interrupted")
              /\ UNCHANGED <<iters, attempt, codes, delays, spawns, cycleNotes, gain,
                           justCalls, lastFault>>
         ELSE /\ iters < MaxIters
              /\ iters' = iters + 1
              /\ attempt' = 0
              /\ codes' = <<>>
              /\ delays' = <<>>
              /\ spawns' = 0
              /\ cycleNotes' = 0
              /\ gain' = 0
              /\ justCalls' = 0
              /\ lastFault' = "none"
              /\ Goto("steer")
              /\ NoSummary
  /\ UNCHANGED <<maxStories, loop, maxMinutes, twinExists, prdExists, prdFile,
                 steerFile, twinBlocks, twinLock, stopping, totalBuilt, cycle,
                 elapsed, steerPrd, steerText, lockTries, msgs, buildCycles,
                 marked, ranPast, sigCount, sigPc, sigSpawns, initOpen,
                 agentLevel, retryOf, steerResp, maxEver, lastSteerId, appPc,
                 appTries, appRead, twinText, lockFile, staleEntered, chPc,
                 stream, streamPos, buffer, output, statusLine, atLineStart,
                 shown, appliedMsgs, planAttempt, cmdPc, cmdMessage, cmdBuild,
                 sawSignal, doneNote, twinContent, currentPrdContent, prompt,
                 otherPc>>

\* --------------------------------------------------------- processSteer()
\* readIfExists(steer.md); if (!steerContent?.trim()) return; read twin and prd
SteerRead ==
  /\ pc = "steer"
  /\ IF steerFile = 0
       THEN /\ pc' = "select"
            /\ retryOf' = "none"
            /\ UNCHANGED <<steerPrd, steerText>>
       ELSE /\ pc' = "steerLLM"
            /\ steerPrd' = prdFile
            /\ steerText' = steerFile
            /\ UNCHANGED retryOf
  /\ UNCHANGED <<maxStories, loop, maxMinutes, twinExists, prdExists, prdFile,
                 steerFile, twinBlocks, twinLock, runMarker, stopping,
                 totalBuilt, cycle, attempt, elapsed, exitCode, lockTries,
                 stopReason, exitFrom, summaries, reported, iters, msgs,
                 codes, delays, spawns, cycleNotes, gain, buildCycles, marked,
                 ranPast, sigCount, sigPc, sigSpawns, initOpen, agentLevel,
                 steerResp, maxEver, lastSteerId, appPc, appTries, appRead,
                 twinText, lockFile, staleEntered, justCalls, lastFault, chPc,
                 stream, streamPos, buffer, output, statusLine, atLineStart,
                 shown, printed, appliedMsgs, planAttempt, cmdPc, cmdMessage,
                 cmdBuild, sawSignal, doneNote, twinContent,
                 currentPrdContent, prompt, otherPc>>

\* The intake ends without clearing steer.md.  retryOf notes a failed or
\* unparseable call while steer.md still holds the text that was submitted.
SteerSkip(outcome) ==
  /\ pc' = "select"
  /\ steerPrd' = <<>>
  /\ steerResp' = <<>>
  /\ retryOf' = IF steerFile = steerText /\ outcome \in {"failed", "unparseable"}
                  THEN outcome ELSE "none"

\* callLLM rejects: processSteer rejects, the call site's .catch swallows it.
SteerCallFails ==
  /\ pc = "steerLLM"
  /\ SteerSkip("failed")
  /\ UNCHANGED <<maxStories, loop, maxMinutes, twinExists, prdExists, prdFile,
                 steerFile, twinBlocks, twinLock, runMarker, stopping,
                 totalBuilt, cycle, attempt, elapsed, exitCode, steerText,
                 lockTries, stopReason, exitFrom, summaries, reported, iters,
                 msgs, codes, delays, spawns, cycleNotes, gain, buildCycles,
                 marked, ranPast, sigCount, sigPc, sigSpawns, initOpen,
                 agentLevel, maxEver, lastSteerId, appPc, appTries, appRead,
                 twinText, lockFile, staleEntered, justCalls, lastFault, chPc,
                 stream, streamPos, buffer, output, statusLine, atLineStart,
                 shown, printed, appliedMsgs, planAttempt, cmdPc, cmdMessage,
                 cmdBuild, sawSignal, doneNote, twinContent,
                 currentPrdContent, prompt, otherPc>>

\* JSON.parse throws: "could not parse response, skipping."; return
SteerUnparseable_clears ==
  /\ pc = "steerLLM"
  /\ SteerSkip("unparseable")
  /\ steerFile' = 0
  /\ UNCHANGED <<maxStories, loop, maxMinutes, twinExists, prdExists, prdFile,
                 twinBlocks, twinLock, runMarker, stopping, totalBuilt, cycle,
                 attempt, elapsed, exitCode, steerText, lockTries, stopReason,
                 exitFrom, summaries, reported, iters, msgs, codes, delays,
                 spawns, cycleNotes, gain, buildCycles, marked, ranPast,
                 sigCount, sigPc, sigSpawns, initOpen, agentLevel, maxEver,
                 lastSteerId, appPc, appTries, appRead, twinText, lockFile,
                 staleEntered, justCalls, lastFault, chPc, stream, streamPos,
                 buffer, output, statusLine, atLineStart, shown, printed,
                 appliedMsgs, planAttempt, cmdPc, cmdMessage, cmdBuild,
                 sawSignal, doneNote, twinContent, currentPrdContent, prompt,
                 otherPc>>

SteerUnparseable ==
  /\ pc = "steerLLM"
  /\ SteerSkip("unparseable")
  /\ UNCHANGED <<maxStories, loop, maxMinutes, twinExists, prdExists, prdFile,
                 steerFile, twinBlocks, twinLock, runMarker, stopping,
                 totalBuilt, cycle, attempt, elapsed, exitCode, steerText,
                 lockTries, stopReason, exitFrom, summaries, reported, iters,
                 msgs, codes, delays, spawns, cycleNotes, gain, buildCycles,
                 marked, ranPast, sigCount, sigPc, sigSpawns, initOpen,
                 agentLevel, maxEver, lastSteerId, appPc, appTries, appRead,
                 twinText, lockFile, staleEntered, justCalls, lastFault, chPc,
                 stream, streamPos, buffer, output, statusLine, atLineStart,
                 shown, printed, appliedMsgs, planAttempt, cmdPc, cmdMessage,
                 cmdBuild, sawSignal, doneNote, twinContent,
                 currentPrdContent, prompt, otherPc>>

\* The items a model response may carry at position i: one as instructed
\* (next id, open) and one that ignores the instructions.
StoryChoices(prd, i) ==
  { [id |-> NextNum(prd) + i - 1, status |-> "open"],
    [id |-> 1, status |-> "done"] }

\* The newStories lists of length k a response may carry.
RECURSIVE StoryLists(_, _)
StoryLists(prd, k) ==
  IF k = 0 THEN {<<>>}
  ELSE {Append(s, c) : s \in StoryLists(prd, k - 1), c \in StoryChoices(prd, k)}

\* The newStories lists of a response, as long as the ledger has room.
NewStories(prd) ==
  UNION {StoryLists(prd, k) : k \in 0..Min(MaxNew, MaxItems - Len(prd))}

\* The response parses: push newStories and write prd.json when there are any.
SteerParsed_prepends(news, append) ==
  /\ pc = "steerLLM"
  /\ IF news # <<>>
       THEN prdFile' = news \o steerPrd
       ELSE UNCHANGED prdFile
  /\ steerResp' = news
  /\ maxEver' = Max(maxEver, MaxNum(prdFile'))
  /\ lastSteerId' = Max(lastSteerId, MaxNum(news))
  /\ pc' = IF append THEN "steerLock" ELSE "steerClear"
  /\ retryOf' = "none"
  /\ steerPrd' = <<>>
  /\ lockTries' = 0
  /\ UNCHANGED <<maxStories, loop, maxMinutes, twinExists, prdExists,
                 steerFile, twinBlocks, twinLock, runMarker, stopping,
                 totalBuilt, cycle, attempt, elapsed, exitCode, steerText,
                 stopReason, exitFrom, summaries, reported, iters, msgs,
                 codes, delays, spawns, cycleNotes, gain, buildCycles, marked,
                 ranPast, sigCount, sigPc, sigSpawns, initOpen, agentLevel,
                 appPc, appTries, appRead, twinText, lockFile, staleEntered,
                 justCalls, lastFault, chPc, stream, streamPos, buffer,
                 output, statusLine, atLineStart, shown, printed, appliedMsgs,
                 planAttempt, cmdPc, cmdMessage, cmdBuild, sawSignal,
                 doneNote, twinContent, currentPrdContent, prompt, otherPc>>

SteerParsed(news, append) ==
  /\ pc = "steerLLM"
  /\ IF news # <<>>
       THEN prdFile' = steerPrd \o news
       ELSE UNCHANGED prdFile
  /\ steerResp' = news
  /\ maxEver' = Max(maxEver, MaxNum(prdFile'))
  /\ lastSteerId' = Max(lastSteerId, MaxNum(news))
  /\ pc' = IF append THEN "steerLock" ELSE "steerClear"
  /\ retryOf' = "none"
  /\ steerPrd' = <<>>
  /\ lockTries' = 0
  /\ UNCHANGED <<maxStories, loop, maxMinutes, twinExists, prdExists,
                 steerFile, twinBlocks, twinLock, runMarker, stopping,
                 totalBuilt, cycle, attempt, elapsed, exitCode, steerText,
                 stopReason, exitFrom, summaries, reported, iters, msgs,
                 codes, delays, spawns, cycleNotes, gain, buildCycles, marked,
                 ranPast, sigCount, sigPc, sigSpawns, initOpen, agentLevel,
                 appPc, appTries, appRead, twinText, lockFile, staleEntered,
                 justCalls, lastFault, chPc, stream, streamPos, buffer,
                 output, statusLine, atLineStart, shown, printed, appliedMsgs,
                 planAttempt, cmdPc, cmdMessage, cmdBuild, sawSignal,
                 doneNote, twinContent, currentPrdContent, prompt, otherPc>>

\* acquireTwinLock: up to MAX_RETRIES exclusive creates, 1 s apart; on
\* exhaustion the lock is taken as stale and the path returned all the same.
AcquireTwinLock ==
  /\ pc = "steerLock"
  /\ IF twinLock = "none"
       THEN /\ twinLock' = "self"
            /\ pc' = "steerTwin"
            /\ lockTries' = 0
       ELSE IF lockTries < MAX_RETRIES - 1
         THEN /\ lockTries' = lockTries + 1
              /\ UNCHANGED <<pc, twinLock>>
         ELSE /\ pc' = "steerTwin"
              /\ lockTries' = 0
              /\ UNCHANGED twinLock
  /\ UNCHANGED <<maxStories, loop, maxMinutes, twinExists, prdExists, prdFile,
                 steerFile, twinBlocks, runMarker, stopping, totalBuilt,
                 cycle, attempt, elapsed, exitCode, steerPrd, steerText,
                 stopReason, exitFrom, summaries, reported, iters, msgs,
                 codes, delays, spawns, cycleNotes, gain, buildCycles, marked,
                 ranPast, sigCount, sigPc, sigSpawns, initOpen, agentLevel,
                 retryOf, steerResp, maxEver, lastSteerId, appPc, appTries,
                 appRead, twinText, lockFile, staleEntered, justCalls,
                 lastFault, chPc, stream, streamPos, buffer, output,
                 statusLine, atLineStart, shown, printed, appliedMsgs,
                 planAttempt, cmdPc, cmdMessage, cmdBuild, sawSignal,
                 doneNote, twinContent, currentPrdContent, prompt, otherPc>>

\* writeFile(lockPath, ..., 'wx') fails with a code other than EEXIST: thrown.
AcquireTwinLockError ==
  /\ pc = "steerLock"
  /\ SteerSkip("lock_error")
  /\ lockTries' = 0
  /\ UNCHANGED <<maxStories, loop, maxMinutes, twinExists, prdExists, prdFile,
                 steerFile, twinBlocks, twinLock, runMarker, stopping,
                 totalBuilt, cycle, attempt, elapsed, exitCode, steerText,
                 stopReason, exitFrom, summaries, reported, iters, msgs,
                 codes, delays, spawns, cycleNotes, gain, buildCycles, marked,
                 ranPast, sigCount, sigPc, sigSpawns, initOpen, agentLevel,
                 maxEver, lastSteerId, appPc, appTries, appRead, twinText,
                 lockFile, staleEntered, justCalls, lastFault, chPc, stream,
                 streamPos, buffer, output, statusLine, atLineStart, shown,
                 printed, appliedMsgs, planAttempt, cmdPc, cmdMessage,
                 cmdBuild, sawSignal, doneNote, twinContent,
                 currentPrdContent, prompt, otherPc>>

\* Another process of the tool creates or removes <twin>.lock meanwhile.
OtherLock ==
  /\ pc = "steerLock"
  /\ twinLock \in {"none", "other"}
  /\ twinLock' = IF twinLock = "none" THEN "other" ELSE "none"
  /\ UNCHANGED <<maxStories, loop, maxMinutes, twinExists, prdExists, prdFile,
                 steerFile, twinBlocks, runMarker, pc, stopping, totalBuilt,
                 cycle, attempt, elapsed, exitCode, steerPrd, steerText,
                 lockTries, stopReason, exitFrom, summaries, reported, iters,
                 msgs, codes, delays, spawns, cycleNotes, gain, buildCycles,
                 marked, ranPast, sigCount, sigPc, sigSpawns, initOpen,
                 agentLevel, retryOf, steerResp, maxEver, lastSteerId, appPc,
                 appTries, appRead, twinText, lockFile, staleEntered,
                 justCalls, lastFault, chPc, stream, streamPos, buffer,
                 output, statusLine, atLineStart, shown, printed, appliedMsgs,
                 planAttempt, cmdPc, cmdMessage, cmdBuild, sawSignal,
                 doneNote, twinContent, currentPrdContent, prompt, otherPc>>

\* try { read twin; write twin + block } finally { releaseTwinLock }
SteerTwinWrite(ok) ==
  /\ pc = "steerTwin"
  /\ twinLock' = "none"
  /\ IF ok
       THEN /\ twinBlocks' = twinBlocks + 1
            /\ pc' = "steerClear"
            /\ UNCHANGED <<retryOf, steerPrd, steerResp>>
       ELSE /\ SteerSkip("twin_error")
            /\ UNCHANGED twinBlocks
  /\ UNCHANGED <<maxStories, loop, maxMinutes, twinExists, prdExists, prdFile,
                 steerFile, runMarker, stopping, totalBuilt, cycle, attempt,
                 elapsed, exitCode, steerText, lockTries, stopReason,
                 exitFrom, summaries, reported, iters, msgs, codes, delays,
                 spawns, cycleNotes, gain, buildCycles, marked, ranPast,
                 sigCount, sigPc, sigSpawns, initOpen, agentLevel, maxEver,
                 lastSteerId, appPc, appTries, appRead, twinText, lockFile,
                 staleEntered, justCalls, lastFault, chPc, stream, streamPos,
                 buffer, output, statusLine, atLineStart, shown, printed,
                 appliedMsgs, planAttempt, cmdPc, cmdMessage, cmdBuild,
                 sawSignal, doneNote, twinContent, currentPrdContent, prompt,
                 otherPc>>

\* writeFile(steerPath, '')
SteerClear_keeps ==
  /\ pc = "steerClear"
  /\ pc' = "select"
  /\ steerResp' = <<>>
  /\ UNCHANGED steerFile
  /\ UNCHANGED <<maxStories, loop, maxMinutes, twinExists, prdExists, prdFile,
                 twinBlocks, twinLock, runMarker, stopping, totalBuilt, cycle,
                 attempt, elapsed, exitCode, steerPrd, steerText, lockTries,
                 stopReason, exitFrom, summaries, reported, iters, msgs,
                 codes, delays, spawns, cycleNotes, gain, buildCycles, marked,
                 ranPast, sigCount, sigPc, sigSpawns, initOpen, agentLevel,
                 retryOf, maxEver, lastSteerId, appPc, appTries, appRead,
                 twinText, lockFile, staleEntered, justCalls, lastFault, chPc,
                 stream, streamPos, buffer, output, statusLine, atLineStart,
                 shown, printed, appliedMsgs, planAttempt, cmdPc, cmdMessage,
                 cmdBuild, sawSignal, doneNote, twinContent,
                 currentPrdContent, prompt, otherPc>>

SteerClear ==
  /\ pc = "steerClear"
  /\ steerFile' = 0
  /\ steerResp' = <<>>
  /\ pc' = "select"
  /\ UNCHANGED <<maxStories, loop, maxMinutes, twinExists, prdExists, prdFile,
                 twinBlocks, twinLock, runMarker, stopping, totalBuilt, cycle,
                 attempt, elapsed, exitCode, steerPrd, steerText, lockTries,
                 stopReason, exitFrom, summaries, reported, iters, msgs,
                 codes, delays, spawns, cycleNotes, gain, buildCycles, marked,
                 ranPast, sigCount, sigPc, sigSpawns, initOpen, agentLevel,
                 retryOf, maxEver, lastSteerId, appPc, appTries, appRead,
                 twinText, lockFile, staleEntered, justCalls, lastFault, chPc,
                 stream, streamPos, buffer, output, statusLine, atLineStart,
                 shown, printed, appliedMsgs, planAttempt, cmdPc, cmdMessage,
                 cmdBuild, sawSignal, doneNote, twinContent,
                 currentPrdContent, prompt, otherPc>>

\* ------------------------------------- build(): selection, plan, time limit
\* Re-read prd.json; no open stories: stop (non-loop) or plan (loop);
\* otherwise the time limit check, then on to the build.
Select_limitFirst ==
  /\ pc = "select"
  /\ IF TimeLimitReached
       THEN PrintSummary /\ Exit(0, "deadline")
       ELSE IF Remaining(prdFile) = 0
         THEN IF ~loop
                THEN PrintSummary /\ Exit(0, "complete")
                ELSE Goto("plan") /\ NoSummary
         ELSE Goto("justify") /\ NoSummary
  /\ UNCHANGED <<maxStories, loop, maxMinutes, twinExists, prdExists, prdFile,
                 steerFile, twinBlocks, twinLock, stopping, totalBuilt, cycle,
                 attempt, elapsed, steerPrd, steerText, lockTries, iters,
                 msgs, codes, delays, spawns, cycleNotes, gain, buildCycles,
                 marked, ranPast, sigCount, sigPc, sigSpawns, initOpen,
                 agentLevel, retryOf, steerResp, maxEver, lastSteerId, appPc,
                 appTries, appRead, twinText, lockFile, staleEntered,
                 justCalls, lastFault, chPc, stream, streamPos, buffer,
                 output, statusLine, atLineStart, shown, appliedMsgs,
                 planAttempt, cmdPc, cmdMessage, cmdBuild, sawSignal,
                 doneNote, twinContent, currentPrdContent, prompt, otherPc>>

Select_plansAlways ==
  /\ pc = "select"
  /\ IF Remaining(prdFile) = 0
       THEN Goto("plan") /\ NoSummary
       ELSE IF TimeLimitReached
         THEN PrintSummary /\ Exit(0, "deadline")
         ELSE Goto("justify") /\ NoSummary
  /\ UNCHANGED <<maxStories, loop, maxMinutes, twinExists, prdExists, prdFile,
                 steerFile, twinBlocks, twinLock, stopping, totalBuilt, cycle,
                 attempt, elapsed, steerPrd, steerText, lockTries, iters,
                 msgs, codes, delays, spawns, cycleNotes, gain, buildCycles,
                 marked, ranPast, sigCount, sigPc, sigSpawns, initOpen,
                 agentLevel, retryOf, steerResp, maxEver, lastSteerId, appPc,
                 appTries, appRead, twinText, lockFile, staleEntered,
                 justCalls, lastFault, chPc, stream, streamPos, buffer,
                 output, statusLine, atLineStart, shown, appliedMsgs,
                 planAttempt, cmdPc, cmdMessage, cmdBuild, sawSignal,
                 doneNote, twinContent, currentPrdContent, prompt, otherPc>>

Select_noLimit ==
  /\ pc = "select"
  /\ IF Remaining(prdFile) = 0
       THEN IF ~loop
              THEN PrintSummary /\ Exit(0, "complete")
              ELSE Goto("plan") /\ NoSummary
       ELSE Goto("justify") /\ NoSummary
  /\ UNCHANGED <<maxStories, loop, maxMinutes, twinExists, prdExists, prdFile,
                 steerFile, twinBlocks, twinLock, stopping, totalBuilt, cycle,
                 attempt, elapsed, steerPrd, steerText, lockTries, iters,
                 msgs, codes, delays, spawns, cycleNotes, gain, buildCycles,
                 marked, ranPast, sigCount, sigPc, sigSpawns, initOpen,
                 agentLevel, retryOf, steerResp, maxEver, lastSteerId, appPc,
                 appTries, appRead, twinText, lockFile, staleEntered,
                 justCalls, lastFault, chPc, stream, streamPos, buffer,
                 output, statusLine, atLineStart, shown, appliedMsgs,
                 planAttempt, cmdPc, cmdMessage, cmdBuild, sawSignal,
                 doneNote, twinContent, currentPrdContent, prompt, otherPc>>

Select ==
  /\ pc = "select"
  /\ IF Remaining(prdFile) = 0
       THEN IF ~loop
              THEN PrintSummary /\ Exit(0, "complete")
              ELSE Goto("plan") /\ NoSummary
       ELSE IF TimeLimitReached
         THEN PrintSummary /\ Exit(0, "deadline")
         ELSE Goto("justify") /\ NoSummary
  /\ UNCHANGED <<maxStories, loop, maxMinutes, twinExists, prdExists, prdFile,
                 steerFile, twinBlocks, twinLock, stopping, totalBuilt, cycle,
                 attempt, elapsed, steerPrd, steerText, lockTries, iters,
                 msgs, codes, delays, spawns, cycleNotes, gain, buildCycles,
                 marked, ranPast, sigCount, sigPc, sigSpawns, initOpen,
                 agentLevel, retryOf, steerResp, maxEver, lastSteerId, appPc,
                 appTries, appRead, twinText, lockFile, staleEntered,
                 justCalls, lastFault, chPc, stream, streamPos, buffer,
                 output, statusLine, atLineStart, shown, appliedMsgs,
                 planAttempt, cmdPc, cmdMessage, cmdBuild, sawSignal,
                 doneNote, twinContent, currentPrdContent, prompt, otherPc>>

\* runPlan(cwd) returns its new stories, already merged into prd.json;
\* an empty list also stands for a failed or unparseable planner call.
PlanReturn_countsEmpty(news) ==
  /\ pc = "plan"
  /\ prdFile' = prdFile \o news
  /\ maxEver' = Max(maxEver, MaxNum(prdFile'))
  /\ cycle' = cycle + 1
  /\ Goto("top")
  /\ UNCHANGED <<maxStories, loop, maxMinutes, twinExists, prdExists,
                 steerFile, twinBlocks, twinLock, stopping, totalBuilt,
                 attempt, elapsed, steerPrd, steerText, lockTries, summaries,
                 reported, iters, msgs, codes, delays, spawns, cycleNotes,
                 gain, buildCycles, marked, ranPast, sigCount, sigPc,
                 sigSpawns, initOpen, agentLevel, retryOf, steerResp,
                 lastSteerId, appPc, appTries, appRead, twinText, lockFile,
                 staleEntered, justCalls, lastFault, chPc, stream, streamPos,
                 buffer, output, statusLine, atLineStart, shown, printed,
                 appliedMsgs, planAttempt, cmdPc, cmdMessage, cmdBuild,
                 sawSignal, doneNote, twinContent, currentPrdContent, prompt,
                 otherPc>>

PlanReturn(news) ==
  /\ pc = "plan"
  /\ prdFile' = prdFile \o news
  /\ maxEver' = Max(maxEver, MaxNum(prdFile'))
  /\ IF Len(news) = 0
       THEN /\ PrintSummary
            /\ Exit(0, "exhausted")
            /\ UNCHANGED cycle
       ELSE /\ cycle' = cycle + 1
            /\ Goto("top")
            /\ NoSummary
  /\ UNCHANGED <<maxStories, loop, maxMinutes, twinExists, prdExists,
                 steerFile, twinBlocks, twinLock, stopping, totalBuilt,
                 attempt, elapsed, steerPrd, steerText, lockTries, iters,
                 msgs, codes, delays, spawns, cycleNotes, gain, buildCycles,
                 marked, ranPast, sigCount, sigPc, sigSpawns, initOpen,
                 agentLevel, retryOf, steerResp, lastSteerId, appPc, appTries,
                 appRead, twinText, lockFile, staleEntered, justCalls,
                 lastFault, chPc, stream, streamPos, buffer, output,
                 statusLine, atLineStart, shown, appliedMsgs, planAttempt,
                 cmdPc, cmdMessage, cmdBuild, sawSignal, doneNote,
                 twinContent, currentPrdContent, prompt, otherPc>>

\* ------------------------------------------------ build(): one story build
\* runIteration: spawn('claude', ...); an 'error' event (launch failure)
\* ends the process with code 1.
Spawn_skipsStory(launched) ==
  IF launched
    THEN /\ Goto("agent")
         /\ spawns' = spawns + 1
         /\ marked' = 0
    ELSE /\ Goto("top")
         /\ UNCHANGED <<spawns, marked>>

Spawn(launched) ==
  IF launched
    THEN /\ Goto("agent")
         /\ spawns' = spawns + 1
         /\ marked' = 0
    ELSE /\ Exit(1, "spawn_error")
         /\ UNCHANGED <<spawns, marked>>

\* logPriorityJustification (best effort: .catch(() => {})), buildPrompt,
\* then attempt 0 of the retry loop.
Justify(launched) ==
  /\ pc = "justify"
  /\ buildCycles' = IF launched THEN buildCycles + 1 ELSE buildCycles
  /\ justCalls' = justCalls + 1
  /\ Spawn(launched)
  /\ UNCHANGED <<maxStories, loop, maxMinutes, twinExists, prdExists, prdFile,
                 steerFile, twinBlocks, twinLock, stopping, totalBuilt, cycle,
                 attempt, elapsed, steerPrd, steerText, lockTries, summaries,
                 reported, iters, msgs, codes, delays, cycleNotes, gain,
                 ranPast, sigCount, sigPc, sigSpawns, initOpen, agentLevel,
                 retryOf, steerResp, maxEver, lastSteerId, appPc, appTries,
                 appRead, twinText, lockFile, staleEntered, lastFault, chPc,
                 stream, streamPos, buffer, output, statusLine, atLineStart,
                 shown, printed, appliedMsgs, planAttempt, cmdPc, cmdMessage,
                 cmdBuild, sawSignal, doneNote, twinContent,
                 currentPrdContent, prompt, otherPc>>

\* STORY_RETRY_DELAYS[attempt - 1]; past the end of the array it is
\* undefined and the timer fires at once.
RetryDelay(a) ==
  IF a <= Len(STORY_RETRY_DELAYS) THEN STORY_RETRY_DELAYS[a] ELSE 0

\* The running agent sets story i of prd.json to done.
AgentEdit(i) ==
  /\ pc = "agent"
  /\ prdFile' = [prdFile EXCEPT ![i].status = "done"]
  /\ marked' = marked + 1
  /\ UNCHANGED <<maxStories, loop, maxMinutes, twinExists, prdExists,
                 steerFile, twinBlocks, twinLock, runMarker, pc, stopping,
                 totalBuilt, cycle, attempt, elapsed, exitCode, steerPrd,
                 steerText, lockTries, stopReason, exitFrom, summaries,
                 reported, iters, msgs, codes, delays, spawns, cycleNotes,
                 gain, buildCycles, ranPast, sigCount, sigPc, sigSpawns,
                 initOpen, agentLevel, retryOf, steerResp, maxEver,
                 lastSteerId, appPc, appTries, appRead, twinText, lockFile,
                 staleEntered, justCalls, lastFault, chPc, stream, streamPos,
                 buffer, output, statusLine, atLineStart, shown, printed,
                 appliedMsgs, planAttempt, cmdPc, cmdMessage, cmdBuild,
                 sawSignal, doneNote, twinContent, currentPrdContent, prompt,
                 otherPc>>

\* How far the agent has kept to its instructions: an invocation that exits
\* 0 has marked exactly one item done, one that exits non-zero has marked none.
Level(code) ==
  IF code = 0 /\ marked = 1 THEN agentLevel
  ELSE IF code # 0 /\ marked = 0
    THEN (IF agentLevel = "clean" THEN "retried" ELSE agentLevel)
    ELSE "deviant"

\* The agent process closes with `code`: the rest of the retry loop's body
\* and, after it, "if (succeeded) totalBuilt++".
AgentClose(code) ==
  /\ pc = "agent"
  /\ agentLevel' = Level(code)
  /\ codes' = Append(codes, code)
  /\ marked' = 0
  /\ ranPast' = (ranPast \/ TimeLimitReached)
  /\ IF code # 0
       THEN IF attempt < STORY_RETRIES
              THEN /\ attempt' = attempt + 1
                   /\ delays' = Append(delays, RetryDelay(attempt + 1))
                   /\ pc' = "backoff"
                   /\ UNCHANGED <<cycleNotes, totalBuilt, gain>>
              ELSE /\ cycleNotes' = cycleNotes + 1
                   /\ pc' = "top"
                   /\ UNCHANGED <<attempt, delays, totalBuilt, gain>>
       ELSE /\ totalBuilt' = totalBuilt + 1
            /\ gain' = gain + 1
            /\ pc' = "top"
            /\ UNCHANGED <<attempt, delays, cycleNotes>>
  /\ UNCHANGED <<maxStories, loop, maxMinutes, twinExists, prdExists, prdFile,
                 steerFile, twinBlocks, twinLock, runMarker, stopping, cycle,
                 elapsed, exitCode, steerPrd, steerText, lockTries,
                 stopReason, exitFrom, summaries, reported, iters, msgs,
                 spawns, buildCycles, sigCount, sigPc, sigSpawns, initOpen,
                 retryOf, steerResp, maxEver, lastSteerId, appPc, appTries,
                 appRead, twinText, lockFile, staleEntered, justCalls,
                 lastFault, chPc, stream, streamPos, buffer, output,
                 statusLine, atLineStart, shown, printed, appliedMsgs,
                 planAttempt, cmdPc, cmdMessage, cmdBuild, sawSignal,
                 doneNote, twinContent, currentPrdContent, prompt, otherPc>>

\* sleep(delay) is over: the next attempt's runIteration.
Wake(launched) ==
  /\ pc = "backoff"
  /\ Spawn(launched)
  /\ UNCHANGED <<maxStories, loop, maxMinutes, twinExists, prdExists, prdFile,
                 steerFile, twinBlocks, twinLock, stopping, totalBuilt, cycle,
                 attempt, elapsed, steerPrd, steerText, lockTries, summaries,
                 reported, iters, msgs, codes, delays, cycleNotes, gain,
                 buildCycles, ranPast, sigCount, sigPc, sigSpawns, initOpen,
                 agentLevel, retryOf, steerResp, maxEver, lastSteerId, appPc,
                 appTries, appRead, twinText, lockFile, staleEntered,
                 justCalls, lastFault, chPc, stream, streamPos, buffer,
                 output, statusLine, atLineStart, shown, printed, appliedMsgs,
                 planAttempt, cmdPc, cmdMessage, cmdBuild, sawSignal,
                 doneNote, twinContent, currentPrdContent, prompt, otherPc>>

\* ------------------------------------------------------------ environment
InFlight == {"agent", "backoff"}

\* What is noted of a SIGINT: how many came, and where the first one found
\* the controller.
NoteSignal ==
  /\ sigCount' = sigCount + 1
  /\ sigPc' = IF sigCount > 0 THEN sigPc
              ELSE IF pc \in InFlight THEN "inflight" ELSE "idle"
  /\ sigSpawns' = IF sigCount > 0 THEN sigSpawns ELSE spawns

\* process.on('SIGINT'): if (stopping) process.exit(1); stopping = true
SIGINT_noEscalation ==
  /\ pc \notin {"start", "exited"}
  /\ sigCount < 2
  /\ NoteSignal
  /\ stopping' = TRUE
  /\ Goto(pc)
  /\ UNCHANGED <<maxStories, loop, maxMinutes, twinExists, prdExists, prdFile,
                 steerFile, twinBlocks, twinLock, totalBuilt, cycle, attempt,
                 elapsed, steerPrd, steerText, lockTries, summaries, reported,
                 iters, msgs, codes, delays, spawns, cycleNotes, gain,
                 buildCycles, marked, ranPast, initOpen, agentLevel, retryOf,
                 steerResp, maxEver, lastSteerId, appPc, appTries, appRead,
                 twinText, lockFile, staleEntered, justCalls, lastFault, chPc,
                 stream, streamPos, buffer, output, statusLine, atLineStart,
                 shown, printed, appliedMsgs, planAttempt, cmdPc, cmdMessage,
                 cmdBuild, sawSignal, doneNote, twinContent,
                 currentPrdContent, prompt, otherPc>>

SIGINT_aborts ==
  /\ pc \notin {"start", "exited"}
  /\ NoteSignal
  /\ stopping' = TRUE
  /\ IF stopping
       THEN Exit(1, "hard_exit")
       ELSE IF pc \in InFlight THEN Goto("top") ELSE Goto(pc)
  /\ UNCHANGED <<maxStories, loop, maxMinutes, twinExists, prdExists, prdFile,
                 steerFile, twinBlocks, twinLock, totalBuilt, cycle, attempt,
                 elapsed, steerPrd, steerText, lockTries, summaries, reported,
                 iters, msgs, codes, delays, spawns, cycleNotes, gain,
                 buildCycles, marked, ranPast, initOpen, agentLevel, retryOf,
                 steerResp, maxEver, lastSteerId, appPc, appTries, appRead,
                 twinText, lockFile, staleEntered, justCalls, lastFault, chPc,
                 stream, streamPos, buffer, output, statusLine, atLineStart,
                 shown, printed, appliedMsgs, planAttempt, cmdPc, cmdMessage,
                 cmdBuild, sawSignal, doneNote, twinContent,
                 currentPrdContent, prompt, otherPc>>

SIGINT ==
  /\ pc \notin {"start", "exited"}
  /\ NoteSignal
  /\ stopping' = TRUE
  /\ IF stopping
       THEN Exit(1, "hard_exit")
       ELSE Goto(pc)
  /\ UNCHANGED <<maxStories, loop, maxMinutes, twinExists, prdExists, prdFile,
                 steerFile, twinBlocks, twinLock, totalBuilt, cycle, attempt,
                 elapsed, steerPrd, steerText, lockTries, summaries, reported,
                 iters, msgs, codes, delays, spawns, cycleNotes, gain,
                 buildCycles, marked, ranPast, initOpen, agentLevel, retryOf,
                 steerResp, maxEver, lastSteerId, appPc, appTries, appRead,
                 twinText, lockFile, staleEntered, justCalls, lastFault, chPc,
                 stream, streamPos, buffer, output, statusLine, atLineStart,
                 shown, printed, appliedMsgs, planAttempt, cmdPc, cmdMessage,
                 cmdBuild, sawSignal, doneNote, twinContent,
                 currentPrdContent, prompt, otherPc>>

\* A minute passes (Date.now() - startTime grows); time is only read against
\* the limit, so the clock stops counting once the limit is reached.
Tick ==
  /\ pc # "exited"
  /\ TimeLimitMs # 0
  /\ ~TimeLimitReached
  /\ elapsed' = elapsed + 1
  /\ UNCHANGED <<maxStories, loop, maxMinutes, twinExists, prdExists, prdFile,
                 steerFile, twinBlocks, twinLock, runMarker, pc, stopping,
                 totalBuilt, cycle, attempt, exitCode, steerPrd, steerText,
                 lockTries, stopReason, exitFrom, summaries, reported, iters,
                 msgs, codes, delays, spawns, cycleNotes, gain, buildCycles,
                 marked, ranPast, sigCount, sigPc, sigSpawns, initOpen,
                 agentLevel, retryOf, steerResp, maxEver, lastSteerId, appPc,
                 appTries, appRead, twinText, lockFile, staleEntered,
                 justCalls, lastFault, chPc, stream, streamPos, buffer,
                 output, statusLine, atLineStart, shown, printed, appliedMsgs,
                 planAttempt, cmdPc, cmdMessage, cmdBuild, sawSignal,
                 doneNote, twinContent, currentPrdContent, prompt, otherPc>>

\* The user writes a message to steer.md (twin steer from another terminal).
UserSteer ==
  /\ pc # "exited"
  /\ msgs < MaxMsgs
  /\ msgs' = msgs + 1
  /\ steerFile' = msgs + 1
  /\ retryOf' = "none"
  /\ UNCHANGED <<maxStories, loop, maxMinutes, twinExists, prdExists, prdFile,
                 twinBlocks, twinLock, runMarker, pc, stopping, totalBuilt,
                 cycle, attempt, elapsed, exitCode, steerPrd, steerText,
                 lockTries, stopReason, exitFrom, summaries, reported, iters,
                 codes, delays, spawns, cycleNotes, gain, buildCycles, marked,
                 ranPast, sigCount, sigPc, sigSpawns, initOpen, agentLevel,
                 steerResp, maxEver, lastSteerId, appPc, appTries, appRead,
                 twinText, lockFile, staleEntered, justCalls, lastFault, chPc,
                 stream, streamPos, buffer, output, statusLine, atLineStart,
                 shown, printed, appliedMsgs, planAttempt, cmdPc, cmdMessage,
                 cmdBuild, sawSignal, doneNote, twinContent,
                 currentPrdContent, prompt, otherPc>>

\* ------------------------------------------------------------------- Next
\* The build loop while nobody writes steer.md: every cycle's intake finds
\* the file empty.
Next ==
  \/ Setup
  \/ Preflight
  \/ LoopTop
  \/ SteerRead
  \/ Select
  \/ \E news \in NewStories(prdFile) : PlanReturn(news)
  \/ \E launched \in BOOLEAN : Justify(launched)
  \/ \E i \in OpenIdx(prdFile) : AgentEdit(i)
  \/ \E code \in {0, 1} : AgentClose(code)
  \/ \E launched \in BOOLEAN : Wake(launched)
  \/ SIGINT
  \/ Tick

Spec == Init /\ [][Next]_vars

\* The build loop with the steering intake at work: the user writes steer.md
\* during a run that has a taste profile, a ledger, no time limit and the
\* quota the steer command gives its own build (build({ maxStories: 1 })),
\* and sends no SIGINT.
InitSteer ==
  /\ Init
  /\ twinExists
  /\ prdExists
  /\ maxMinutes = 0
  /\ maxStories = 1

NextSteer ==
  \/ Setup
  \/ Preflight
  \/ LoopTop
  \/ SteerRead
  \/ SteerCallFails
  \/ SteerUnparseable
  \/ \E news \in NewStories(steerPrd), append \in BOOLEAN :
       SteerParsed(news, append)
  \/ AcquireTwinLock
  \/ AcquireTwinLockError
  \/ OtherLock
  \/ \E ok \in BOOLEAN : SteerTwinWrite(ok)
  \/ SteerClear
  \/ Select
  \/ \E news \in NewStories(prdFile) : PlanReturn(news)
  \/ \E launched \in BOOLEAN : Justify(launched)
  \/ \E i \in OpenIdx(prdFile) : AgentEdit(i)
  \/ \E code \in {0, 1} : AgentClose(code)
  \/ \E launched \in BOOLEAN : Wake(launched)
  \/ UserSteer

SpecSteer == InitSteer /\ [][NextSteer]_vars

\* ------------------------- the taste-profile lock, processes side by side
\* if (json.twinAppend) { const lockPath = await acquireTwinLock(twinPath)
AppStart(p) ==
  /\ appPc[p] = "idle"
  /\ appPc' = [appPc EXCEPT ![p] = "acquire"]
  /\ UNCHANGED <<maxStories, loop, maxMinutes, twinExists, prdExists, prdFile,
                 steerFile, twinBlocks, twinLock, runMarker, pc, stopping,
                 totalBuilt, cycle, attempt, elapsed, exitCode, steerPrd,
                 steerText, lockTries, stopReason, exitFrom, summaries,
                 reported, iters, msgs, codes, delays, spawns, cycleNotes,
                 gain, buildCycles, marked, ranPast, sigCount, sigPc,
                 sigSpawns, initOpen, agentLevel, retryOf, steerResp, maxEver,
                 lastSteerId, appTries, appRead, twinText, lockFile,
                 staleEntered, justCalls, lastFault, chPc, stream, streamPos,
                 buffer, output, statusLine, atLineStart, shown, printed,
                 appliedMsgs, planAttempt, cmdPc, cmdMessage, cmdBuild,
                 sawSignal, doneNote, twinContent, currentPrdContent, prompt,
                 otherPc>>

\* One pass of acquireTwinLock's loop: writeFile(lockPath, pid, {flag: 'wx'});
\* on EEXIST wait and try again, after the last attempt return lockPath.
AppAcquire_overwrites(p) ==
  /\ appPc[p] = "acquire"
  /\ lockFile' = p
  /\ appPc' = [appPc EXCEPT ![p] = "read"]
  /\ UNCHANGED <<maxStories, loop, maxMinutes, twinExists, prdExists, prdFile,
                 steerFile, twinBlocks, twinLock, runMarker, pc, stopping,
                 totalBuilt, cycle, attempt, elapsed, exitCode, steerPrd,
                 steerText, lockTries, stopReason, exitFrom, summaries,
                 reported, iters, msgs, codes, delays, spawns, cycleNotes,
                 gain, buildCycles, marked, ranPast, sigCount, sigPc,
                 sigSpawns, initOpen, agentLevel, retryOf, steerResp, maxEver,
                 lastSteerId, appTries, appRead, twinText, staleEntered,
                 justCalls, lastFault, chPc, stream, streamPos, buffer,
                 output, statusLine, atLineStart, shown, printed, appliedMsgs,
                 planAttempt, cmdPc, cmdMessage, cmdBuild, sawSignal,
                 doneNote, twinContent, currentPrdContent, prompt, otherPc>>

AppAcquire(p) ==
  /\ appPc[p] = "acquire"
  /\ IF lockFile = 0
       THEN /\ lockFile' = p
            /\ appPc' = [appPc EXCEPT ![p] = "read"]
            /\ UNCHANGED <<appTries, staleEntered>>
       ELSE /\ appTries' = [appTries EXCEPT ![p] = @ + 1]
            /\ IF appTries[p] < MAX_RETRIES - 1
                 THEN UNCHANGED <<appPc, staleEntered>>
                 ELSE /\ appPc' = [appPc EXCEPT ![p] = "read"]
                      /\ staleEntered' = staleEntered \cup {p}
            /\ UNCHANGED lockFile
  /\ UNCHANGED <<maxStories, loop, maxMinutes, twinExists, prdExists, prdFile,
                 steerFile, twinBlocks, twinLock, runMarker, pc, stopping,
                 totalBuilt, cycle, attempt, elapsed, exitCode, steerPrd,
                 steerText, lockTries, stopReason, exitFrom, summaries,
                 reported, iters, msgs, codes, delays, spawns, cycleNotes,
                 gain, buildCycles, marked, ranPast, sigCount, sigPc,
                 sigSpawns, initOpen, agentLevel, retryOf, steerResp, maxEver,
                 lastSteerId, appRead, twinText, justCalls, lastFault, chPc,
                 stream, streamPos, buffer, output, statusLine, atLineStart,
                 shown, printed, appliedMsgs, planAttempt, cmdPc, cmdMessage,
                 cmdBuild, sawSignal, doneNote, twinContent,
                 currentPrdContent, prompt, otherPc>>

\* The create fails with a code other than EEXIST: throw err.
AppAcquireError(p) ==
  /\ appPc[p] = "acquire"
  /\ appPc' = [appPc EXCEPT ![p] = "failed"]
  /\ UNCHANGED <<maxStories, loop, maxMinutes, twinExists, prdExists, prdFile,
                 steerFile, twinBlocks, twinLock, runMarker, pc, stopping,
                 totalBuilt, cycle, attempt, elapsed, exitCode, steerPrd,
                 steerText, lockTries, stopReason, exitFrom, summaries,
                 reported, iters, msgs, codes, delays, spawns, cycleNotes,
                 gain, buildCycles, marked, ranPast, sigCount, sigPc,
                 sigSpawns, initOpen, agentLevel, retryOf, steerResp, maxEver,
                 lastSteerId, appTries, appRead, twinText, lockFile,
                 staleEntered, justCalls, lastFault, chPc, stream, streamPos,
                 buffer, output, statusLine, atLineStart, shown, printed,
                 appliedMsgs, planAttempt, cmdPc, cmdMessage, cmdBuild,
                 sawSignal, doneNote, twinContent, currentPrdContent, prompt,
                 otherPc>>

\* const current = await readFile(twinPath)
AppRead(p) ==
  /\ appPc[p] = "read"
  /\ appRead' = [appRead EXCEPT ![p] = twinText]
  /\ appPc' = [appPc EXCEPT ![p] = "write"]
  /\ UNCHANGED <<maxStories, loop, maxMinutes, twinExists, prdExists, prdFile,
                 steerFile, twinBlocks, twinLock, runMarker, pc, stopping,
                 totalBuilt, cycle, attempt, elapsed, exitCode, steerPrd,
                 steerText, lockTries, stopReason, exitFrom, summaries,
                 reported, iters, msgs, codes, delays, spawns, cycleNotes,
                 gain, buildCycles, marked, ranPast, sigCount, sigPc,
                 sigSpawns, initOpen, agentLevel, retryOf, steerResp, maxEver,
                 lastSteerId, appTries, twinText, lockFile, staleEntered,
                 justCalls, lastFault, chPc, stream, streamPos, buffer,
                 output, statusLine, atLineStart, shown, printed, appliedMsgs,
                 planAttempt, cmdPc, cmdMessage, cmdBuild, sawSignal,
                 doneNote, twinContent, currentPrdContent, prompt, otherPc>>

\* await writeFile(twinPath, current.trimEnd() + '\n\n' + json.twinAppend + '\n'):
\* the text read, then the block.
AppWrite(p) ==
  /\ appPc[p] = "write"
  /\ twinText' = Append(appRead[p], p)
  /\ appPc' = [appPc EXCEPT ![p] = "release"]
  /\ UNCHANGED <<maxStories, loop, maxMinutes, twinExists, prdExists, prdFile,
                 steerFile, twinBlocks, twinLock, runMarker, pc, stopping,
                 totalBuilt, cycle, attempt, elapsed, exitCode, steerPrd,
                 steerText, lockTries, stopReason, exitFrom, summaries,
                 reported, iters, msgs, codes, delays, spawns, cycleNotes,
                 gain, buildCycles, marked, ranPast, sigCount, sigPc,
                 sigSpawns, initOpen, agentLevel, retryOf, steerResp, maxEver,
                 lastSteerId, appTries, appRead, lockFile, staleEntered,
                 justCalls, lastFault, chPc, stream, streamPos, buffer,
                 output, statusLine, atLineStart, shown, printed, appliedMsgs,
                 planAttempt, cmdPc, cmdMessage, cmdBuild, sawSignal,
                 doneNote, twinContent, currentPrdContent, prompt, otherPc>>

\* readFile or writeFile of the taste profile throws: on to the finally.
AppFail_leaksLock(p) ==
  /\ appPc[p] \in {"read", "write"}
  /\ appPc' = [appPc EXCEPT ![p] = "done"]
  /\ UNCHANGED <<maxStories, loop, maxMinutes, twinExists, prdExists, prdFile,
                 steerFile, twinBlocks, twinLock, runMarker, pc, stopping,
                 totalBuilt, cycle, attempt, elapsed, exitCode, steerPrd,
                 steerText, lockTries, stopReason, exitFrom, summaries,
                 reported, iters, msgs, codes, delays, spawns, cycleNotes,
                 gain, buildCycles, marked, ranPast, sigCount, sigPc,
                 sigSpawns, initOpen, agentLevel, retryOf, steerResp, maxEver,
                 lastSteerId, appTries, appRead, twinText, lockFile,
                 staleEntered, justCalls, lastFault, chPc, stream, streamPos,
                 buffer, output, statusLine, atLineStart, shown, printed,
                 appliedMsgs, planAttempt, cmdPc, cmdMessage, cmdBuild,
                 sawSignal, doneNote, twinContent, currentPrdContent, prompt,
                 otherPc>>

AppFail(p) ==
  /\ appPc[p] \in {"read", "write"}
  /\ appPc' = [appPc EXCEPT ![p] = "release"]
  /\ UNCHANGED <<maxStories, loop, maxMinutes, twinExists, prdExists, prdFile,
                 steerFile, twinBlocks, twinLock, runMarker, pc, stopping,
                 totalBuilt, cycle, attempt, elapsed, exitCode, steerPrd,
                 steerText, lockTries, stopReason, exitFrom, summaries,
                 reported, iters, msgs, codes, delays, spawns, cycleNotes,
                 gain, buildCycles, marked, ranPast, sigCount, sigPc,
                 sigSpawns, initOpen, agentLevel, retryOf, steerResp, maxEver,
                 lastSteerId, appTries, appRead, twinText, lockFile,
                 staleEntered, justCalls, lastFault, chPc, stream, streamPos,
                 buffer, output, statusLine, atLineStart, shown, printed,
                 appliedMsgs, planAttempt, cmdPc, cmdMessage, cmdBuild,
                 sawSignal, doneNote, twinContent, currentPrdContent, prompt,
                 otherPc>>

\* finally { await releaseTwinLock(lockPath) }: unlink, whoever created it.
AppRelease(p) ==
  /\ appPc[p] = "release"
  /\ lockFile' = 0
  /\ appPc' = [appPc EXCEPT ![p] = "done"]
  /\ UNCHANGED <<maxStories, loop, maxMinutes, twinExists, prdExists, prdFile,
                 steerFile, twinBlocks, twinLock, runMarker, pc, stopping,
                 totalBuilt, cycle, attempt, elapsed, exitCode, steerPrd,
                 steerText, lockTries, stopReason, exitFrom, summaries,
                 reported, iters, msgs, codes, delays, spawns, cycleNotes,
                 gain, buildCycles, marked, ranPast, sigCount, sigPc,
                 sigSpawns, initOpen, agentLevel, retryOf, steerResp, maxEver,
                 lastSteerId, appTries, appRead, twinText, staleEntered,
                 justCalls, lastFault, chPc, stream, streamPos, buffer,
                 output, statusLine, atLineStart, shown, printed, appliedMsgs,
                 planAttempt, cmdPc, cmdMessage, cmdBuild, sawSignal,
                 doneNote, twinContent, currentPrdContent, prompt, otherPc>>

\* Between acquireTwinLock returning and releaseTwinLock.
InSection == {p \in Apps : appPc[p] \in {"read", "write", "release"}}

InitLock ==
  /\ Init
  /\ maxStories = 0
  /\ ~loop
  /\ maxMinutes = 0
  /\ twinExists
  /\ prdExists
  /\ prdFile = <<>>

NextLock ==
  \/ \E p \in Apps : AppStart(p)
  \/ \E p \in Apps : AppAcquire(p)
  \/ \E p \in Apps : AppAcquireError(p)
  \/ \E p \in Apps : AppRead(p)
  \/ \E p \in Apps : AppWrite(p)
  \/ \E p \in Apps : AppFail(p)
  \/ \E p \in Apps : AppRelease(p)

SpecLock == InitLock /\ [][NextLock]_vars

\* ------------------------------------------- the ledger file, edited outside
\* The user deletes item i from prd.json.
UserRemove(i) ==
  /\ pc # "exited"
  /\ prdFile' = SubSeq(prdFile, 1, i - 1) \o SubSeq(prdFile, i + 1, Len(prdFile))
  /\ UNCHANGED <<maxStories, loop, maxMinutes, twinExists, prdExists,
                 steerFile, twinBlocks, twinLock, runMarker, pc, stopping,
                 totalBuilt, cycle, attempt, elapsed, exitCode, steerPrd,
                 steerText, lockTries, stopReason, exitFrom, summaries,
                 reported, iters, msgs, codes, delays, spawns, cycleNotes,
                 gain, buildCycles, marked, ranPast, sigCount, sigPc,
                 sigSpawns, initOpen, agentLevel, retryOf, steerResp, maxEver,
                 lastSteerId, appPc, appTries, appRead, twinText, lockFile,
                 staleEntered, justCalls, lastFault, chPc, stream, streamPos,
                 buffer, output, statusLine, atLineStart, shown, printed,
                 appliedMsgs, planAttempt, cmdPc, cmdMessage, cmdBuild,
                 sawSignal, doneNote, twinContent, currentPrdContent, prompt,
                 otherPc>>

\* The positions of the items with the highest id number.
HighestIdx(prd) == {i \in 1..Len(prd) : prd[i].id = MaxNum(prd)}

\* The steering intake during a run whose user also deletes the item with
\* the highest id.
NextRemoval ==
  \/ NextSteer
  \/ \E i \in HighestIdx(prdFile) : UserRemove(i)

SpecRemoval == InitSteer /\ [][NextRemoval]_vars

\* A second build process runs in the same directory (build() does not look
\* at the run marker): its agent sets item i of prd.json to done.
OtherAgentEdit(i) ==
  /\ pc # "exited"
  /\ prdFile' = [prdFile EXCEPT ![i].status = "done"]
  /\ UNCHANGED <<maxStories, loop, maxMinutes, twinExists, prdExists,
                 steerFile, twinBlocks, twinLock, runMarker, pc, stopping,
                 totalBuilt, cycle, attempt, elapsed, exitCode, steerPrd,
                 steerText, lockTries, stopReason, exitFrom, summaries,
                 reported, iters, msgs, codes, delays, spawns, cycleNotes,
                 gain, buildCycles, marked, ranPast, sigCount, sigPc,
                 sigSpawns, initOpen, agentLevel, retryOf, steerResp, maxEver,
                 lastSteerId, appPc, appTries, appRead, twinText, lockFile,
                 staleEntered, justCalls, lastFault, chPc, stream, streamPos,
                 buffer, output, statusLine, atLineStart, shown, printed,
                 appliedMsgs, planAttempt, cmdPc, cmdMessage, cmdBuild,
                 sawSignal, doneNote, twinContent, currentPrdContent, prompt,
                 otherPc>>

\* The steering intake of a build started by the steer command, with a second
\* build at work on the same prd.json.
NextShared ==
  \/ NextSteer
  \/ \E i \in OpenIdx(prdFile) : OtherAgentEdit(i)

SpecShared == InitSteer /\ [][NextShared]_vars

\* ------------------------------- failures of reads, writes and side calls
\* processSteer after steer.md was read: readFile(twinPath), readFile(prdPath)
\* or JSON.parse(prdContent) throws; the call site's .catch swallows it.
SteerReadError_propagates ==
  /\ pc = "steer"
  /\ steerFile # 0
  /\ steerText' = steerFile
  /\ UNCHANGED <<retryOf, steerPrd, steerResp>>
  /\ Exit(1, "crash")
  /\ lastFault' = "steer_read"
  /\ UNCHANGED <<maxStories, loop, maxMinutes, twinExists, prdExists, prdFile,
                 steerFile, twinBlocks, twinLock, stopping, totalBuilt, cycle,
                 attempt, elapsed, lockTries, summaries, reported, iters,
                 msgs, codes, delays, spawns, cycleNotes, gain, buildCycles,
                 marked, ranPast, sigCount, sigPc, sigSpawns, initOpen,
                 agentLevel, maxEver, lastSteerId, appPc, appTries, appRead,
                 twinText, lockFile, staleEntered, justCalls, chPc, stream,
                 streamPos, buffer, output, statusLine, atLineStart, shown,
                 printed, appliedMsgs, planAttempt, cmdPc, cmdMessage,
                 cmdBuild, sawSignal, doneNote, twinContent,
                 currentPrdContent, prompt, otherPc>>

SteerReadError ==
  /\ pc = "steer"
  /\ steerFile # 0
  /\ steerText' = steerFile
  /\ SteerSkip("read_error")
  /\ lastFault' = "steer_read"
  /\ UNCHANGED <<maxStories, loop, maxMinutes, twinExists, prdExists, prdFile,
                 steerFile, twinBlocks, twinLock, runMarker, stopping,
                 totalBuilt, cycle, attempt, elapsed, exitCode, lockTries,
                 stopReason, exitFrom, summaries, reported, iters, msgs,
                 codes, delays, spawns, cycleNotes, gain, buildCycles, marked,
                 ranPast, sigCount, sigPc, sigSpawns, initOpen, agentLevel,
                 maxEver, lastSteerId, appPc, appTries, appRead, twinText,
                 lockFile, staleEntered, justCalls, chPc, stream, streamPos,
                 buffer, output, statusLine, atLineStart, shown, printed,
                 appliedMsgs, planAttempt, cmdPc, cmdMessage, cmdBuild,
                 sawSignal, doneNote, twinContent, currentPrdContent, prompt,
                 otherPc>>

\* The response parses and carries items, writeFile(prdPath, ...) throws.
SteerWriteError(news) ==
  /\ pc = "steerLLM"
  /\ news # <<>>
  /\ SteerSkip("write_error")
  /\ lastFault' = "steer_write"
  /\ UNCHANGED <<maxStories, loop, maxMinutes, twinExists, prdExists, prdFile,
                 steerFile, twinBlocks, twinLock, runMarker, stopping,
                 totalBuilt, cycle, attempt, elapsed, exitCode, steerText,
                 lockTries, stopReason, exitFrom, summaries, reported, iters,
                 msgs, codes, delays, spawns, cycleNotes, gain, buildCycles,
                 marked, ranPast, sigCount, sigPc, sigSpawns, initOpen,
                 agentLevel, maxEver, lastSteerId, appPc, appTries, appRead,
                 twinText, lockFile, staleEntered, justCalls, chPc, stream,
                 streamPos, buffer, output, statusLine, atLineStart, shown,
                 printed, appliedMsgs, planAttempt, cmdPc, cmdMessage,
                 cmdBuild, sawSignal, doneNote, twinContent,
                 currentPrdContent, prompt, otherPc>>

\* writeFile(steerPath, '') throws.
SteerClearError ==
  /\ pc = "steerClear"
  /\ SteerSkip("clear_error")
  /\ lastFault' = "steer_clear"
  /\ UNCHANGED <<maxStories, loop, maxMinutes, twinExists, prdExists, prdFile,
                 steerFile, twinBlocks, twinLock, runMarker, stopping,
                 totalBuilt, cycle, attempt, elapsed, exitCode, steerText,
                 lockTries, stopReason, exitFrom, summaries, reported, iters,
                 msgs, codes, delays, spawns, cycleNotes, gain, buildCycles,
                 marked, ranPast, sigCount, sigPc, sigSpawns, initOpen,
                 agentLevel, maxEver, lastSteerId, appPc, appTries, appRead,
                 twinText, lockFile, staleEntered, justCalls, chPc, stream,
                 streamPos, buffer, output, statusLine, atLineStart, shown,
                 printed, appliedMsgs, planAttempt, cmdPc, cmdMessage,
                 cmdBuild, sawSignal, doneNote, twinContent,
                 currentPrdContent, prompt, otherPc>>

\* logPriorityJustification rejects (callLLM or the write of synthesis.md);
\* the call site's .catch swallows it, then buildPrompt and attempt 0.
JustifyFails(launched) ==
  /\ pc = "justify"
  /\ buildCycles' = IF launched THEN buildCycles + 1 ELSE buildCycles
  /\ justCalls' = justCalls + 1
  /\ Spawn(launched)
  /\ lastFault' = "justify"
  /\ UNCHANGED <<maxStories, loop, maxMinutes, twinExists, prdExists, prdFile,
                 steerFile, twinBlocks, twinLock, stopping, totalBuilt, cycle,
                 attempt, elapsed, steerPrd, steerText, lockTries, summaries,
                 reported, iters, msgs, codes, delays, cycleNotes, gain,
                 ranPast, sigCount, sigPc, sigSpawns, initOpen, agentLevel,
                 retryOf, steerResp, maxEver, lastSteerId, appPc, appTries,
                 appRead, twinText, lockFile, staleEntered, chPc, stream,
                 streamPos, buffer, output, statusLine, atLineStart, shown,
                 printed, appliedMsgs, planAttempt, cmdPc, cmdMessage,
                 cmdBuild, sawSignal, doneNote, twinContent,
                 currentPrdContent, prompt, otherPc>>

\* The steering intake and the justification step with their reads, writes
\* and model calls failing, in the build the steer command starts once it has
\* written its message.
NextFaults ==
  \/ pc = "start" /\ UserSteer
  \/ Setup
  \/ Preflight
  \/ LoopTop
  \/ SteerRead
  \/ SteerReadError
  \/ SteerCallFails
  \/ SteerUnparseable
  \/ \E news \in NewStories(steerPrd), append \in BOOLEAN :
       SteerParsed(news, append)
  \/ \E news \in NewStories(steerPrd) : SteerWriteError(news)
  \/ AcquireTwinLock
  \/ AcquireTwinLockError
  \/ OtherLock
  \/ \E ok \in BOOLEAN : SteerTwinWrite(ok)
  \/ SteerClear
  \/ SteerClearError
  \/ Select
  \/ \E launched \in BOOLEAN : Justify(launched)
  \/ \E launched \in BOOLEAN : JustifyFails(launched)
  \/ \E i \in OpenIdx(prdFile) : AgentEdit(i)
  \/ \E code \in {0, 1} : AgentClose(code)
  \/ \E launched \in BOOLEAN : Wake(launched)

\* The build the steer command starts: build({ maxStories: 1 }), non-loop.
InitFaults == InitSteer /\ ~loop

SpecFaults == InitFaults /\ [][NextFaults]_vars

\* ------------------------------------------------------ the agent channel
\* Text is modelled as a sequence of tokens.  The two sentinel literals are
\* cut into "S" for "<twin>STORY", "A" for "<twin>ALL" and "E" for
\* "_COMPLETE</twin>", each of which is ordinary text on its own; "e" is a
\* character of two bytes, "H" then "L", in UTF-8.
COMPLETION_SIGNAL == <<"S", "E">>
ALL_DONE_SIGNAL == <<"A", "E">>

Chars == {"S", "A", "E", "e"}

\* The characters a decoded chunk can hold inside a JSON string: those of the
\* agent and U+FFFD.
TextChars == Chars \cup {"?"}

\* The agent's UTF-8 encoding of a text.
RECURSIVE Encode(_)
Encode(cs) ==
  IF cs = <<>> THEN <<>>
  ELSE (IF Head(cs) = "e" THEN <<"H", "L">> ELSE <<Head(cs)>>) \o Encode(Tail(cs))

\* chunk.toString(): UTF-8 decoding of one chunk on its own; a lead byte
\* without its continuation and a continuation byte without its lead byte
\* each become U+FFFD.
RECURSIVE Decode(_)
Decode(bs) ==
  IF bs = <<>> THEN <<>>
  ELSE IF Head(bs) = "H"
    THEN IF Len(bs) >= 2 /\ bs[2] = "L"
           THEN <<"e">> \o Decode(SubSeq(bs, 3, Len(bs)))
           ELSE <<"?">> \o Decode(Tail(bs))
    ELSE IF Head(bs) = "L"
      THEN <<"?">> \o Decode(Tail(bs))
      ELSE <<Head(bs)>> \o Decode(Tail(bs))

\* The lines the agent writes besides text records: an empty line, a line of
\* white space, a tool_use record ("t"), a JSON record of another type ("o"),
\* a text_delta record without a text field ("d") and a text record cut off
\* before its end.  "[" and "]" stand for the JSON around the text of a
\* content_block_delta text record.
OtherLines == {<<>>, <<" ">>, <<"t">>, <<"o">>, <<"d">>, <<"[", "E">>}

\* A text record carrying the text cs, as bytes.
TextLine(cs) == <<"[">> \o Encode(cs) \o <<"]">>

\* The streams of at most r lines, each ended by a newline, carrying at most
\* b characters of text in all.
RECURSIVE StreamsOf(_, _)
StreamsOf(r, b) ==
  IF r = 0 THEN {<<>>}
  ELSE {<<>>}
       \cup UNION {{TextLine(cs) \o <<"nl">> \o rest :
                      cs \in [1..n -> Chars], rest \in StreamsOf(r - 1, b - n)} :
                    n \in 0..b}
       \cup {l \o <<"nl">> \o rest : l \in OtherLines, rest \in StreamsOf(r - 1, b)}

\* The same, and with the last line left without its newline.
Streams(r, b) ==
  LET full == StreamsOf(r, b)
  IN  full \cup {SubSeq(s, 1, Len(s) - 1) : s \in full \ {<<>>}}

\* s.includes(pat)
Contains(s, pat) ==
  \E i \in 1..(Len(s) - Len(pat) + 1) : SubSeq(s, i, i + Len(pat) - 1) = pat

\* s.replace(pat, ''): a string pattern, so only the first occurrence goes.
Replace(s, pat) ==
  IF ~Contains(s, pat) THEN s
  ELSE LET i == CHOOSE j \in 1..(Len(s) - Len(pat) + 1) :
                  /\ SubSeq(s, j, j + Len(pat) - 1) = pat
                  /\ \A h \in 1..(j - 1) : SubSeq(s, h, h + Len(pat) - 1) # pat
       IN  SubSeq(s, 1, i - 1) \o SubSeq(s, i + Len(pat), Len(s))

\* s.split('\n')
RECURSIVE Split(_)
Split(s) ==
  IF \A i \in 1..Len(s) : s[i] # "nl" THEN <<s>>
  ELSE LET i == CHOOSE j \in 1..Len(s) :
                  s[j] = "nl" /\ \A h \in 1..(j - 1) : s[h] # "nl"
       IN  <<SubSeq(s, 1, i - 1)>> \o Split(SubSeq(s, i + 1, Len(s)))

\* s.trim()
RECURSIVE Trim(_)
Trim(s) ==
  IF s = <<>> THEN s
  ELSE IF Head(s) = " " THEN Trim(Tail(s))
  ELSE IF s[Len(s)] = " " THEN Trim(SubSeq(s, 1, Len(s) - 1))
  ELSE s

\* event.delta.text of a record that has no text field, and what += makes of it.
Undefined == <<"undefined">>

\* parseEvent: JSON.parse and the four shapes it knows; null otherwise.
parseEvent(jsonLine) ==
  LET l == Trim(jsonLine)
  IN  IF /\ Len(l) >= 2
         /\ l[1] = "["
         /\ l[Len(l)] = "]"
         /\ \A i \in 2..(Len(l) - 1) : l[i] \in TextChars
        THEN [type |-> "text", text |-> SubSeq(l, 2, Len(l) - 1)]
      ELSE IF l = <<"d">> THEN [type |-> "text", text |-> Undefined]
      ELSE IF l = <<"t">> THEN [type |-> "tool", text |-> <<>>]
      ELSE [type |-> "null", text |-> <<>>]

\* The body of the loop over the complete lines of a chunk, on the locals
\* st; thrown is set when the body throws (event.text.replace on undefined).
\* Of a status line only the line break written before it stays on screen.
HandleLine(st, line) ==
  IF st.thrown \/ Trim(line) = <<>> THEN st
  ELSE LET event == parseEvent(line)
       IN  IF event.type = "null" THEN st
           ELSE IF event.type = "text"
             THEN IF event.text = Undefined
                    THEN [st EXCEPT !.statusLine = FALSE,
                                    !.output = @ \o Undefined,
                                    !.thrown = TRUE]
                    ELSE LET display == Replace(Replace(event.text, COMPLETION_SIGNAL),
                                                ALL_DONE_SIGNAL)
                         IN  [st EXCEPT !.statusLine = FALSE,
                                        !.output = @ \o event.text,
                                        !.shown = @ \o display,
                                        !.atLineStart =
                                           IF display # <<>> THEN FALSE ELSE @]
             ELSE [st EXCEPT !.shown = IF ~st.atLineStart /\ ~st.statusLine
                                         THEN @ \o <<"nl">> ELSE @,
                             !.atLineStart = TRUE,
                             !.statusLine = TRUE]

RECURSIVE HandleLines(_, _)
HandleLines(st, lines) ==
  IF lines = <<>> THEN st
  ELSE HandleLines(HandleLine(st, Head(lines)), Tail(lines))

\* runIteration is called; the agent will write s to its stdout.
ChannelOpen(s) ==
  /\ chPc = "idle"
  /\ chPc' = "open"
  /\ stream' = s
  /\ UNCHANGED <<maxStories, loop, maxMinutes, twinExists, prdExists, prdFile,
                 steerFile, twinBlocks, twinLock, runMarker, pc, stopping,
                 totalBuilt, cycle, attempt, elapsed, exitCode, steerPrd,
                 steerText, lockTries, stopReason, exitFrom, summaries,
                 reported, iters, msgs, codes, delays, spawns, cycleNotes,
                 gain, buildCycles, marked, ranPast, sigCount, sigPc,
                 sigSpawns, initOpen, agentLevel, retryOf, steerResp, maxEver,
                 lastSteerId, appPc, appTries, appRead, twinText, lockFile,
                 staleEntered, justCalls, lastFault, streamPos, buffer,
                 output, statusLine, atLineStart, shown, printed, appliedMsgs,
                 planAttempt, cmdPc, cmdMessage, cmdBuild, sawSignal,
                 doneNote, twinContent, currentPrdContent, prompt, otherPc>>

\* claude.stdout.on('data'): the next k bytes arrive as one chunk.  An
\* exception thrown in the handler is not caught anywhere: the process dies.
ChannelData(k) ==
  /\ chPc = "open"
  /\ streamPos + k <= Len(stream)
  /\ \E lines \in {Split(buffer \o Decode(SubSeq(stream, streamPos + 1, streamPos + k)))} :
       \E st \in {HandleLines([statusLine |-> statusLine, output |-> output,
                               shown |-> shown, atLineStart |-> atLineStart,
                               thrown |-> FALSE],
                              SubSeq(lines, 1, Len(lines) - 1))} :
         /\ streamPos' = streamPos + k
         /\ buffer' = lines[Len(lines)]
         /\ statusLine' = st.statusLine
         /\ output' = st.output
         /\ shown' = st.shown
         /\ atLineStart' = st.atLineStart
         /\ chPc' = IF st.thrown THEN "crashed" ELSE "open"
  /\ UNCHANGED <<maxStories, loop, maxMinutes, twinExists, prdExists, prdFile,
                 steerFile, twinBlocks, twinLock, runMarker, pc, stopping,
                 totalBuilt, cycle, attempt, elapsed, exitCode, steerPrd,
                 steerText, lockTries, stopReason, exitFrom, summaries,
                 reported, iters, msgs, codes, delays, spawns, cycleNotes,
                 gain, buildCycles, marked, ranPast, sigCount, sigPc,
                 sigSpawns, initOpen, agentLevel, retryOf, steerResp, maxEver,
                 lastSteerId, appPc, appTries, appRead, twinText, lockFile,
                 staleEntered, justCalls, lastFault, stream, printed,
                 appliedMsgs, planAttempt, cmdPc, cmdMessage, cmdBuild,
                 sawSignal, doneNote, twinContent, currentPrdContent, prompt,
                 otherPc>>

\* claude.on('close'): the rest of the buffer is parsed as one more line;
\* process.stdout.write(undefined) throws.
ChannelClose ==
  /\ chPc = "open"
  /\ streamPos = Len(stream)
  /\ statusLine' = FALSE
  /\ LET event == parseEvent(Trim(buffer))
     IN  IF Trim(buffer) # <<>> /\ event.type = "text"
           THEN IF event.text = Undefined
                  THEN /\ chPc' = "crashed"
                       /\ UNCHANGED <<shown, output>>
                  ELSE /\ chPc' = "closed"
                       /\ shown' = shown \o event.text
                       /\ output' = output \o event.text
           ELSE /\ chPc' = "closed"
                /\ UNCHANGED <<shown, output>>
  /\ UNCHANGED <<maxStories, loop, maxMinutes, twinExists, prdExists, prdFile,
                 steerFile, twinBlocks, twinLock, runMarker, pc, stopping,
                 totalBuilt, cycle, attempt, elapsed, exitCode, steerPrd,
                 steerText, lockTries, stopReason, exitFrom, summaries,
                 reported, iters, msgs, codes, delays, spawns, cycleNotes,
                 gain, buildCycles, marked, ranPast, sigCount, sigPc,
                 sigSpawns, initOpen, agentLevel, retryOf, steerResp, maxEver,
                 lastSteerId, appPc, appTries, appRead, twinText, lockFile,
                 staleEntered, justCalls, lastFault, stream, streamPos,
                 buffer, atLineStart, printed, appliedMsgs, planAttempt,
                 cmdPc, cmdMessage, cmdBuild, sawSignal, doneNote,
                 twinContent, currentPrdContent, prompt, otherPc>>

\* One run of the agent channel, for every output of the agent and every
\* way of cutting it into chunks.
InitChannel == InitLock

NextChannel ==
  \/ chPc = "idle" /\ \E s \in Streams(MaxRecs, MaxText) : ChannelOpen(s)
  \/ \E k \in 1..MaxChunk : ChannelData(k)
  \/ ChannelClose

SpecChannel == InitChannel /\ [][NextChannel]_vars

\* ------------------------------------- failures on the primary build path
\* build() has no try around its own reads and writes and bin/twin.js calls
\* build() without a catch: a rejection ends the process with code 1 and a
\* stack trace (the 'exit' handler still unlinks the run marker).
\* readFile(twinPath) at the top of a pass throws (profile deleted, unreadable).
TwinReadFails ==
  /\ pc = "top"
  /\ LoopCond
  /\ ~stopping
  /\ lastFault' = "twin_read"
  /\ Exit(1, "crash")
  /\ UNCHANGED <<maxStories, loop, maxMinutes, twinExists, prdExists, prdFile,
                 steerFile, twinBlocks, twinLock, stopping, totalBuilt, cycle,
                 attempt, elapsed, steerPrd, steerText, lockTries, summaries,
                 reported, iters, msgs, codes, delays, spawns, cycleNotes,
                 gain, buildCycles, marked, ranPast, sigCount, sigPc,
                 sigSpawns, initOpen, agentLevel, retryOf, steerResp, maxEver,
                 lastSteerId, appPc, appTries, appRead, twinText, lockFile,
                 staleEntered, justCalls, chPc, stream, streamPos, buffer,
                 output, statusLine, atLineStart, shown, printed, appliedMsgs,
                 planAttempt, cmdPc, cmdMessage, cmdBuild, sawSignal,
                 doneNote, twinContent, currentPrdContent, prompt, otherPc>>

\* readFile(prdPath) or the JSON.parse of its content after the intake throws
\* (ledger deleted, unreadable, or left unparseable by the agent).
PrdReadFails ==
  /\ pc = "select"
  /\ lastFault' = "prd_read"
  /\ Exit(1, "crash")
  /\ UNCHANGED <<maxStories, loop, maxMinutes, twinExists, prdExists, prdFile,
                 steerFile, twinBlocks, twinLock, stopping, totalBuilt, cycle,
                 attempt, elapsed, steerPrd, steerText, lockTries, summaries,
                 reported, iters, msgs, codes, delays, spawns, cycleNotes,
                 gain, buildCycles, marked, ranPast, sigCount, sigPc,
                 sigSpawns, initOpen, agentLevel, retryOf, steerResp, maxEver,
                 lastSteerId, appPc, appTries, appRead, twinText, lockFile,
                 staleEntered, justCalls, chPc, stream, streamPos, buffer,
                 output, statusLine, atLineStart, shown, printed, appliedMsgs,
                 planAttempt, cmdPc, cmdMessage, cmdBuild, sawSignal,
                 doneNote, twinContent, currentPrdContent, prompt, otherPc>>

\* The agent closes with `code` and the rest of the retry loop's body throws:
\* after the last failed attempt writeFile(progressPath, ...), after an
\* attempt that exited 0 with a sentinel in its output
\* JSON.parse(await readFile(prdPath)).
AgentCloseFails(code) ==
  /\ pc = "agent"
  /\ code # 0 => attempt = STORY_RETRIES
  /\ codes' = Append(codes, code)
  /\ lastFault' = IF code # 0 THEN "progress_write" ELSE "prd_read"
  /\ Exit(1, "crash")
  /\ UNCHANGED <<maxStories, loop, maxMinutes, twinExists, prdExists, prdFile,
                 steerFile, twinBlocks, twinLock, stopping, totalBuilt, cycle,
                 attempt, elapsed, steerPrd, steerText, lockTries, summaries,
                 reported, iters, msgs, delays, spawns, cycleNotes, gain,
                 buildCycles, marked, ranPast, sigCount, sigPc, sigSpawns,
                 initOpen, agentLevel, retryOf, steerResp, maxEver,
                 lastSteerId, appPc, appTries, appRead, twinText, lockFile,
                 staleEntered, justCalls, chPc, stream, streamPos, buffer,
                 output, statusLine, atLineStart, shown, printed, appliedMsgs,
                 planAttempt, cmdPc, cmdMessage, cmdBuild, sawSignal,
                 doneNote, twinContent, currentPrdContent, prompt, otherPc>>

\* The build loop with the steering intake at work and the reads and writes
\* of the loop itself failing.
NextCrash ==
  \/ NextSteer
  \/ TwinReadFails
  \/ PrdReadFails
  \/ \E code \in {0, 1} : AgentCloseFails(code)

SpecCrash == InitSteer /\ [][NextCrash]_vars

\* ------------------------------------------- steering while a build runs
\* The while loop of build() has been entered and the process has not ended.
ActiveLoop == pc \notin {"start", "preflight", "exited"}

\* The user runs twin steer once more, after the MaxMsgs-th message.
UserSteerAgain ==
  /\ pc # "exited"
  /\ msgs = MaxMsgs
  /\ msgs' = msgs + 1
  /\ steerFile' = msgs + 1
  /\ retryOf' = "none"
  /\ UNCHANGED <<maxStories, loop, maxMinutes, twinExists, prdExists, prdFile,
                 twinBlocks, twinLock, runMarker, pc, stopping, totalBuilt,
                 cycle, attempt, elapsed, exitCode, steerPrd, steerText,
                 lockTries, stopReason, exitFrom, summaries, reported, iters,
                 codes, delays, spawns, cycleNotes, gain, buildCycles, marked,
                 ranPast, sigCount, sigPc, sigSpawns, initOpen, agentLevel,
                 steerResp, maxEver, lastSteerId, appPc, appTries, appRead,
                 twinText, lockFile, staleEntered, justCalls, lastFault, chPc,
                 stream, streamPos, buffer, output, statusLine, atLineStart,
                 shown, printed, appliedMsgs, planAttempt, cmdPc, cmdMessage,
                 cmdBuild, sawSignal, doneNote, twinContent,
                 currentPrdContent, prompt, otherPc>>

\* The build loop with every steering message written while the loop is
\* active, the last of them after an earlier one.
NextResteer ==
  \/ Setup
  \/ Preflight
  \/ LoopTop
  \/ SteerRead
  \/ SteerCallFails
  \/ SteerUnparseable
  \/ \E news \in NewStories(steerPrd), append \in BOOLEAN :
       SteerParsed(news, append)
  \/ AcquireTwinLock
  \/ AcquireTwinLockError
  \/ OtherLock
  \/ \E ok \in BOOLEAN : SteerTwinWrite(ok)
  \/ SteerClear
  \/ Select
  \/ \E news \in NewStories(prdFile) : PlanReturn(news)
  \/ \E launched \in BOOLEAN : Justify(launched)
  \/ \E i \in OpenIdx(prdFile) : AgentEdit(i)
  \/ \E code \in {0, 1} : AgentClose(code)
  \/ \E launched \in BOOLEAN : Wake(launched)
  \/ ActiveLoop /\ UserSteer
  \/ ActiveLoop /\ UserSteerAgain

SpecResteer == InitSteer /\ [][NextResteer]_vars

\* ------------------------------------ steering messages and their items
\* SteerParsed, with the message whose items are written to the ledger noted.
SteerParsedNoted(news, append) ==
  /\ pc = "steerLLM"
  /\ IF news # <<>>
       THEN prdFile' = steerPrd \o news
       ELSE UNCHANGED prdFile
  /\ appliedMsgs' = IF news # <<>> THEN appliedMsgs \cup {steerText} ELSE appliedMsgs
  /\ steerResp' = news
  /\ maxEver' = Max(maxEver, MaxNum(prdFile'))
  /\ lastSteerId' = Max(lastSteerId, MaxNum(news))
  /\ pc' = IF append THEN "steerLock" ELSE "steerClear"
  /\ retryOf' = "none"
  /\ steerPrd' = <<>>
  /\ lockTries' = 0
  /\ UNCHANGED <<maxStories, loop, maxMinutes, twinExists, prdExists,
                 steerFile, twinBlocks, twinLock, runMarker, stopping,
                 totalBuilt, cycle, attempt, elapsed, exitCode, steerText,
                 stopReason, exitFrom, summaries, reported, iters, msgs,
                 codes, delays, spawns, cycleNotes, gain, buildCycles, marked,
                 ranPast, sigCount, sigPc, sigSpawns, initOpen, agentLevel,
                 appPc, appTries, appRead, twinText, lockFile, staleEntered,
                 justCalls, lastFault, chPc, stream, streamPos, buffer,
                 output, statusLine, atLineStart, shown, printed, planAttempt,
                 cmdPc, cmdMessage, cmdBuild, sawSignal, doneNote,
                 twinContent, currentPrdContent, prompt, otherPc>>

\* The build loop with the steering intake at work, the steps of the intake
\* after the ledger write failing.
NextReapply ==
  \/ Setup
  \/ Preflight
  \/ LoopTop
  \/ SteerRead
  \/ SteerCallFails
  \/ SteerUnparseable
  \/ \E news \in NewStories(steerPrd), append \in BOOLEAN :
       SteerParsedNoted(news, append)
  \/ AcquireTwinLock
  \/ AcquireTwinLockError
  \/ OtherLock
  \/ \E ok \in BOOLEAN : SteerTwinWrite(ok)
  \/ SteerClear
  \/ SteerClearError
  \/ Select
  \/ \E news \in NewStories(prdFile) : PlanReturn(news)
  \/ \E launched \in BOOLEAN : Justify(launched)
  \/ \E i \in OpenIdx(prdFile) : AgentEdit(i)
  \/ \E code \in {0, 1} : AgentClose(code)
  \/ \E launched \in BOOLEAN : Wake(launched)
  \/ UserSteer

SpecReapply == InitSteer /\ [][NextReapply]_vars

\* ---------------------------------------------- runPlan(), call by call
\* callLLM rejects: sleep and retry while attempt < PLAN_RETRIES, else
\* "Planning failed after 3 attempts" and return []; build() then takes the
\* newStories.length === 0 branch.
PlanCallFails ==
  /\ pc = "plan"
  /\ IF planAttempt < PLAN_RETRIES
       THEN /\ planAttempt' = planAttempt + 1
            /\ lastFault' = "plan_retry"
            /\ Goto("plan")
            /\ NoSummary
       ELSE /\ lastFault' = "plan_failed"
            /\ PrintSummary
            /\ Exit(0, "exhausted")
            /\ UNCHANGED planAttempt
  /\ UNCHANGED <<maxStories, loop, maxMinutes, twinExists, prdExists, prdFile,
                 steerFile, twinBlocks, twinLock, stopping, totalBuilt, cycle,
                 attempt, elapsed, steerPrd, steerText, lockTries, iters,
                 msgs, codes, delays, spawns, cycleNotes, gain, buildCycles,
                 marked, ranPast, sigCount, sigPc, sigSpawns, initOpen,
                 agentLevel, retryOf, steerResp, maxEver, lastSteerId, appPc,
                 appTries, appRead, twinText, lockFile, staleEntered,
                 justCalls, chPc, stream, streamPos, buffer, output,
                 statusLine, atLineStart, shown, appliedMsgs, cmdPc,
                 cmdMessage, cmdBuild, sawSignal, doneNote, twinContent,
                 currentPrdContent, prompt, otherPc>>

\* parseLLMJson throws: return [] before anything is written.
PlanUnparseable_throws ==
  /\ pc = "plan"
  /\ lastFault' = "plan_unparseable"
  /\ NoSummary
  /\ Exit(1, "crash")
  /\ UNCHANGED <<maxStories, loop, maxMinutes, twinExists, prdExists, prdFile,
                 steerFile, twinBlocks, twinLock, stopping, totalBuilt, cycle,
                 attempt, elapsed, steerPrd, steerText, lockTries, iters,
                 msgs, codes, delays, spawns, cycleNotes, gain, buildCycles,
                 marked, ranPast, sigCount, sigPc, sigSpawns, initOpen,
                 agentLevel, retryOf, steerResp, maxEver, lastSteerId, appPc,
                 appTries, appRead, twinText, lockFile, staleEntered,
                 justCalls, chPc, stream, streamPos, buffer, output,
                 statusLine, atLineStart, shown, appliedMsgs, planAttempt,
                 cmdPc, cmdMessage, cmdBuild, sawSignal, doneNote,
                 twinContent, currentPrdContent, prompt, otherPc>>

PlanUnparseable ==
  /\ pc = "plan"
  /\ lastFault' = "plan_unparseable"
  /\ PrintSummary
  /\ Exit(0, "exhausted")
  /\ UNCHANGED <<maxStories, loop, maxMinutes, twinExists, prdExists, prdFile,
                 steerFile, twinBlocks, twinLock, stopping, totalBuilt, cycle,
                 attempt, elapsed, steerPrd, steerText, lockTries, iters,
                 msgs, codes, delays, spawns, cycleNotes, gain, buildCycles,
                 marked, ranPast, sigCount, sigPc, sigSpawns, initOpen,
                 agentLevel, retryOf, steerResp, maxEver, lastSteerId, appPc,
                 appTries, appRead, twinText, lockFile, staleEntered,
                 justCalls, chPc, stream, streamPos, buffer, output,
                 statusLine, atLineStart, shown, appliedMsgs, planAttempt,
                 cmdPc, cmdMessage, cmdBuild, sawSignal, doneNote,
                 twinContent, currentPrdContent, prompt, otherPc>>

\* The call succeeds and the response parses: the new stories are merged
\* into prd.json and returned.
PlanParsed(news) ==
  /\ pc = "plan"
  /\ planAttempt' = 0
  /\ prdFile' = prdFile \o news
  /\ maxEver' = Max(maxEver, MaxNum(prdFile'))
  /\ IF Len(news) = 0
       THEN /\ PrintSummary
            /\ Exit(0, "exhausted")
            /\ UNCHANGED cycle
       ELSE /\ cycle' = cycle + 1
            /\ Goto("top")
            /\ NoSummary
  /\ UNCHANGED <<maxStories, loop, maxMinutes, twinExists, prdExists,
                 steerFile, twinBlocks, twinLock, stopping, totalBuilt,
                 attempt, elapsed, steerPrd, steerText, lockTries, iters,
                 msgs, codes, delays, spawns, cycleNotes, gain, buildCycles,
                 marked, ranPast, sigCount, sigPc, sigSpawns, initOpen,
                 agentLevel, retryOf, steerResp, lastSteerId, appPc, appTries,
                 appRead, twinText, lockFile, staleEntered, justCalls,
                 lastFault, chPc, stream, streamPos, buffer, output,
                 statusLine, atLineStart, shown, appliedMsgs, cmdPc,
                 cmdMessage, cmdBuild, sawSignal, doneNote, twinContent,
                 currentPrdContent, prompt, otherPc>>

\* A loop-mode run with a taste profile and a ledger, no time limit, no
\* interrupt and no steering, with the planner's model call failing or
\* answering.
InitPlan ==
  /\ Init
  /\ loop
  /\ twinExists
  /\ prdExists
  /\ maxMinutes = 0

NextPlan ==
  \/ Setup
  \/ Preflight
  \/ LoopTop
  \/ SteerRead
  \/ Select
  \/ PlanCallFails
  \/ PlanUnparseable
  \/ \E news \in NewStories(prdFile) : PlanParsed(news)
  \/ \E launched \in BOOLEAN : Justify(launched)
  \/ \E i \in OpenIdx(prdFile) : AgentEdit(i)
  \/ \E code \in {0, 1} : AgentClose(code)
  \/ \E launched \in BOOLEAN : Wake(launched)

SpecPlan == InitPlan /\ [][NextPlan]_vars

\* ------------------------------------------------------ the steer command
\* build({ maxStories: 1 }) with the defaults of build() for the rest.
OwnBuild == [maxStories |-> 1, loop |-> FALSE, maxMinutes |-> 0, started |-> TRUE]

\* steer() up to its first write: the message from the arguments or the
\* prompter; none: "No message provided. Nothing written." and exit(0);
\* otherwise writeFile(steerPath, message).
CmdStart(given) ==
  /\ cmdPc = "idle"
  /\ IF ~given
       THEN /\ cmdPc' = "done"
            /\ UNCHANGED <<cmdMessage, steerFile, msgs, retryOf>>
       ELSE /\ cmdPc' = "written"
            /\ cmdMessage' = msgs + 1
            /\ msgs' = msgs + 1
            /\ steerFile' = msgs + 1
            /\ retryOf' = "none"
  /\ UNCHANGED <<maxStories, loop, maxMinutes, twinExists, prdExists, prdFile,
                 twinBlocks, twinLock, runMarker, pc, stopping, totalBuilt,
                 cycle, attempt, elapsed, exitCode, steerPrd, steerText,
                 lockTries, stopReason, exitFrom, summaries, reported, iters,
                 codes, delays, spawns, cycleNotes, gain, buildCycles, marked,
                 ranPast, sigCount, sigPc, sigSpawns, initOpen, agentLevel,
                 steerResp, maxEver, lastSteerId, appPc, appTries, appRead,
                 twinText, lockFile, staleEntered, justCalls, lastFault, chPc,
                 stream, streamPos, buffer, output, statusLine, atLineStart,
                 shown, printed, appliedMsgs, planAttempt, cmdBuild,
                 sawSignal, doneNote, twinContent, currentPrdContent, prompt,
                 otherPc>>

\* if (existsSync(lockPath)) { "pick this up at the next story boundary" }
\* else { await build({ maxStories: 1 }) }
CmdCheck_alwaysBuilds ==
  /\ cmdPc = "written"
  /\ cmdPc' = "building"
  /\ cmdBuild' = OwnBuild
  /\ UNCHANGED <<maxStories, loop, maxMinutes, twinExists, prdExists, prdFile,
                 steerFile, twinBlocks, twinLock, runMarker, pc, stopping,
                 totalBuilt, cycle, attempt, elapsed, exitCode, steerPrd,
                 steerText, lockTries, stopReason, exitFrom, summaries,
                 reported, iters, msgs, codes, delays, spawns, cycleNotes,
                 gain, buildCycles, marked, ranPast, sigCount, sigPc,
                 sigSpawns, initOpen, agentLevel, retryOf, steerResp, maxEver,
                 lastSteerId, appPc, appTries, appRead, twinText, lockFile,
                 staleEntered, justCalls, lastFault, chPc, stream, streamPos,
                 buffer, output, statusLine, atLineStart, shown, printed,
                 appliedMsgs, planAttempt, cmdMessage, sawSignal, doneNote,
                 twinContent, currentPrdContent, prompt, otherPc>>

CmdCheck ==
  /\ cmdPc = "written"
  /\ IF runMarker
       THEN /\ cmdPc' = "done"
            /\ UNCHANGED cmdBuild
       ELSE /\ cmdPc' = "building"
            /\ cmdBuild' = OwnBuild
  /\ UNCHANGED <<maxStories, loop, maxMinutes, twinExists, prdExists, prdFile,
                 steerFile, twinBlocks, twinLock, runMarker, pc, stopping,
                 totalBuilt, cycle, attempt, elapsed, exitCode, steerPrd,
                 steerText, lockTries, stopReason, exitFrom, summaries,
                 reported, iters, msgs, codes, delays, spawns, cycleNotes,
                 gain, buildCycles, marked, ranPast, sigCount, sigPc,
                 sigSpawns, initOpen, agentLevel, retryOf, steerResp, maxEver,
                 lastSteerId, appPc, appTries, appRead, twinText, lockFile,
                 staleEntered, justCalls, lastFault, chPc, stream, streamPos,
                 buffer, output, statusLine, atLineStart, shown, printed,
                 appliedMsgs, planAttempt, cmdMessage, sawSignal, doneNote,
                 twinContent, currentPrdContent, prompt, otherPc>>

\* One run of the steer command next to a non-loop build with quota 1 that
\* is about to start, runs or has ended.
InitCmd ==
  /\ InitFaults
  /\ Len(prdFile) <= 1

NextCmd ==
  \/ \E given \in BOOLEAN : CmdStart(given)
  \/ CmdCheck
  \/ Setup
  \/ Preflight
  \/ LoopTop
  \/ SteerRead
  \/ SteerCallFails
  \/ SteerUnparseable
  \/ \E news \in NewStories(steerPrd) : SteerParsed(news, FALSE)
  \/ SteerClear
  \/ Select
  \/ \E launched \in BOOLEAN : Justify(launched)
  \/ \E i \in OpenIdx(prdFile) : AgentEdit(i)
  \/ \E code \in {0, 1} : AgentClose(code)
  \/ \E launched \in BOOLEAN : Wake(launched)

SpecCmd == InitCmd /\ [][NextCmd]_vars

\* ------------------------------------- the result of an agent invocation
\* runIteration resolves { output, code }; the rest of the retry loop's body
\* with the output taken into account: after an exit with code 0,
\* if (output.includes(COMPLETION_SIGNAL) || output.includes(ALL_DONE_SIGNAL))
\* re-read prd.json and log the open count when above 0; then
\* "if (succeeded) totalBuilt++".
AgentCloseOut_needsSignal(code, signalled) ==
  /\ pc = "agent"
  /\ agentLevel' = Level(code)
  /\ codes' = Append(codes, code)
  /\ marked' = 0
  /\ ranPast' = (ranPast \/ TimeLimitReached)
  /\ sawSignal' = signalled
  /\ IF code # 0
       THEN /\ doneNote' = -1
            /\ IF attempt < STORY_RETRIES
                 THEN /\ attempt' = attempt + 1
                      /\ delays' = Append(delays, RetryDelay(attempt + 1))
                      /\ pc' = "backoff"
                      /\ UNCHANGED <<cycleNotes, totalBuilt, gain>>
                 ELSE /\ cycleNotes' = cycleNotes + 1
                      /\ pc' = "top"
                      /\ UNCHANGED <<attempt, delays, totalBuilt, gain>>
       ELSE /\ doneNote' = IF signalled /\ Remaining(prdFile) > 0
                             THEN Remaining(prdFile) ELSE -1
            /\ totalBuilt' = IF signalled THEN totalBuilt + 1 ELSE totalBuilt
            /\ gain' = IF signalled THEN gain + 1 ELSE gain
            /\ pc' = "top"
            /\ UNCHANGED <<attempt, delays, cycleNotes>>
  /\ UNCHANGED <<maxStories, loop, maxMinutes, twinExists, prdExists, prdFile,
                 steerFile, twinBlocks, twinLock, runMarker, stopping, cycle,
                 elapsed, exitCode, steerPrd, steerText, lockTries,
                 stopReason, exitFrom, summaries, reported, iters, msgs,
                 spawns, buildCycles, sigCount, sigPc, sigSpawns, initOpen,
                 retryOf, steerResp, maxEver, lastSteerId, appPc, appTries,
                 appRead, twinText, lockFile, staleEntered, justCalls,
                 lastFault, chPc, stream, streamPos, buffer, output,
                 statusLine, atLineStart, shown, printed, appliedMsgs,
                 planAttempt, cmdPc, cmdMessage, cmdBuild, twinContent,
                 currentPrdContent, prompt, otherPc>>

AgentCloseOut(code, signalled) ==
  /\ pc = "agent"
  /\ agentLevel' = Level(code)
  /\ codes' = Append(codes, code)
  /\ marked' = 0
  /\ ranPast' = (ranPast \/ TimeLimitReached)
  /\ sawSignal' = signalled
  /\ IF code # 0
       THEN /\ doneNote' = -1
            /\ IF attempt < STORY_RETRIES
                 THEN /\ attempt' = attempt + 1
                      /\ delays' = Append(delays, RetryDelay(attempt + 1))
                      /\ pc' = "backoff"
                      /\ UNCHANGED <<cycleNotes, totalBuilt, gain>>
                 ELSE /\ cycleNotes' = cycleNotes + 1
                      /\ pc' = "top"
                      /\ UNCHANGED <<attempt, delays, totalBuilt, gain>>
       ELSE /\ doneNote' = IF signalled /\ Remaining(prdFile) > 0
                             THEN Remaining(prdFile) ELSE -1
            /\ totalBuilt' = totalBuilt + 1
            /\ gain' = gain + 1
            /\ pc' = "top"
            /\ UNCHANGED <<attempt, delays, cycleNotes>>
  /\ UNCHANGED <<maxStories, loop, maxMinutes, twinExists, prdExists, prdFile,
                 steerFile, twinBlocks, twinLock, runMarker, stopping, cycle,
                 elapsed, exitCode, steerPrd, steerText, lockTries,
                 stopReason, exitFrom, summaries, reported, iters, msgs,
                 spawns, buildCycles, sigCount, sigPc, sigSpawns, initOpen,
                 retryOf, steerResp, maxEver, lastSteerId, appPc, appTries,
                 appRead, twinText, lockFile, staleEntered, justCalls,
                 lastFault, chPc, stream, streamPos, buffer, output,
                 statusLine, atLineStart, shown, printed, appliedMsgs,
                 planAttempt, cmdPc, cmdMessage, cmdBuild, twinContent,
                 currentPrdContent, prompt, otherPc>>

\* A non-loop run without time limit and interrupt, the agent free in its
\* exit code, in what it prints and in what it marks done.
InitResult ==
  /\ Init
  /\ ~loop
  /\ maxMinutes = 0
  /\ twinExists
  /\ prdExists

NextResult ==
  \/ Setup
  \/ Preflight
  \/ LoopTop
  \/ SteerRead
  \/ Select
  \/ \E launched \in BOOLEAN : Justify(launched)
  \/ \E i \in OpenIdx(prdFile) : AgentEdit(i)
  \/ \E code \in {0, 1}, signalled \in BOOLEAN : AgentCloseOut(code, signalled)
  \/ \E launched \in BOOLEAN : Wake(launched)

SpecResult == InitResult /\ [][NextResult]_vars

\* ------------------------------------------ the build loop run without end
\* The top of the loop and the start of a build with no bound on the number
\* of passes: the counters kept of the run (iters, buildCycles), which the
\* program does not read, stop counting at MaxIters.
LoopTopOn ==
  /\ pc = "top"
  /\ IF ~LoopCond
       THEN /\ IF totalBuilt > 0 /\ totalBuilt >= maxStories
                 THEN PrintSummary ELSE NoSummary
            /\ Exit(0, "quota")
            /\ UNCHANGED <<iters, attempt, codes, delays, spawns, cycleNotes, gain,
                           justCalls, lastFault>>
       ELSE IF stopping
         THEN /\ PrintSummary
              /\ Exit(0, "interrupted")
              /\ UNCHANGED <<iters, attempt, codes, delays, spawns, cycleNotes, gain,
                           justCalls, lastFault>>
         ELSE /\ iters' = Min(iters + 1, MaxIters)
              /\ attempt' = 0
              /\ codes' = <<>>
              /\ delays' = <<>>
              /\ spawns' = 0
              /\ cycleNotes' = 0
              /\ gain' = 0
              /\ justCalls' = 0
              /\ lastFault' = "none"
              /\ Goto("steer")
              /\ NoSummary
  /\ UNCHANGED <<maxStories, loop, maxMinutes, twinExists, prdExists, prdFile,
                 steerFile, twinBlocks, twinLock, stopping, totalBuilt, cycle,
                 elapsed, steerPrd, steerText, lockTries, msgs, buildCycles,
                 marked, ranPast, sigCount, sigPc, sigSpawns, initOpen,
                 agentLevel, retryOf, steerResp, maxEver, lastSteerId, appPc,
                 appTries, appRead, twinText, lockFile, staleEntered, chPc,
                 stream, streamPos, buffer, output, statusLine, atLineStart,
                 shown, appliedMsgs, planAttempt, cmdPc, cmdMessage, cmdBuild,
                 sawSignal, doneNote, twinContent, currentPrdContent, prompt,
                 otherPc>>

JustifyOn(launched) ==
  /\ pc = "justify"
  /\ buildCycles' = IF launched THEN Min(buildCycles + 1, MaxIters) ELSE buildCycles
  /\ justCalls' = justCalls + 1
  /\ Spawn(launched)
  /\ UNCHANGED <<maxStories, loop, maxMinutes, twinExists, prdExists, prdFile,
                 steerFile, twinBlocks, twinLock, stopping, totalBuilt, cycle,
                 attempt, elapsed, steerPrd, steerText, lockTries, summaries,
                 reported, iters, msgs, codes, delays, cycleNotes, gain,
                 ranPast, sigCount, sigPc, sigSpawns, initOpen, agentLevel,
                 retryOf, steerResp, maxEver, lastSteerId, appPc, appTries,
                 appRead, twinText, lockFile, staleEntered, lastFault, chPc,
                 stream, streamPos, buffer, output, statusLine, atLineStart,
                 shown, printed, appliedMsgs, planAttempt, cmdPc, cmdMessage,
                 cmdBuild, sawSignal, doneNote, twinContent,
                 currentPrdContent, prompt, otherPc>>

\* A non-loop run with its quota, no time limit and no SIGINT.
InitOn ==
  /\ Init
  /\ ~loop
  /\ maxMinutes = 0

NextOn ==
  \/ Setup
  \/ Preflight
  \/ LoopTopOn
  \/ SteerRead
  \/ Select
  \/ \E launched \in BOOLEAN : JustifyOn(launched)
  \/ \E i \in OpenIdx(prdFile) : AgentEdit(i)
  \/ \E code \in {0, 1} : AgentClose(code)
  \/ \E launched \in BOOLEAN : Wake(launched)

\* Every await of the loop settles (each agent invocation closes, each
\* backoff timer fires), so the controller always takes its next step.
SpecOn == InitOn /\ [][NextOn]_vars /\ WF_vars(NextOn)

\* ------------------------------------------------- what the agent is given
\* The pass of the loop with its reads kept: twinContent is read before the
\* intake is called, currentPrdContent after it, and buildPrompt puts both
\* into the prompt before the retry loop, whose every runIteration(prompt,
\* cwd) is given that one prompt.
LoopTopReads ==
  /\ pc = "top"
  /\ IF ~LoopCond
       THEN /\ IF totalBuilt > 0 /\ totalBuilt >= maxStories
                 THEN PrintSummary ELSE NoSummary
            /\ Exit(0, "quota")
            /\ UNCHANGED <<iters, attempt, codes, delays, spawns, cycleNotes, gain,
                           justCalls, lastFault, twinContent>>
       ELSE IF stopping
         THEN /\ PrintSummary
              /\ Exit(0, "interrupted")
              /\ UNCHANGED <<iters, attempt, codes, delays, spawns, cycleNotes, gain,
                           justCalls, lastFault, twinContent>>
         ELSE /\ iters < MaxIters
              /\ iters' = iters + 1
              /\ attempt' = 0
              /\ codes' = <<>>
              /\ delays' = <<>>
              /\ spawns' = 0
              /\ cycleNotes' = 0
              /\ gain' = 0
              /\ justCalls' = 0
              /\ lastFault' = "none"
              /\ twinContent' = twinBlocks
              /\ Goto("steer")
              /\ NoSummary
  /\ UNCHANGED <<maxStories, loop, maxMinutes, twinExists, prdExists, prdFile,
                 steerFile, twinBlocks, twinLock, stopping, totalBuilt, cycle,
                 elapsed, steerPrd, steerText, lockTries, msgs, buildCycles,
                 marked, ranPast, sigCount, sigPc, sigSpawns, initOpen,
                 agentLevel, retryOf, steerResp, maxEver, lastSteerId, appPc,
                 appTries, appRead, twinText, lockFile, staleEntered, chPc,
                 stream, streamPos, buffer, output, statusLine, atLineStart,
                 shown, appliedMsgs, planAttempt, cmdPc, cmdMessage, cmdBuild,
                 sawSignal, doneNote, currentPrdContent, prompt, otherPc>>

SelectReads ==
  /\ pc = "select"
  /\ currentPrdContent' = prdFile
  /\ IF Remaining(prdFile) = 0
       THEN IF ~loop
              THEN PrintSummary /\ Exit(0, "complete")
              ELSE Goto("plan") /\ NoSummary
       ELSE IF TimeLimitReached
         THEN PrintSummary /\ Exit(0, "deadline")
         ELSE Goto("justify") /\ NoSummary
  /\ UNCHANGED <<maxStories, loop, maxMinutes, twinExists, prdExists, prdFile,
                 steerFile, twinBlocks, twinLock, stopping, totalBuilt, cycle,
                 attempt, elapsed, steerPrd, steerText, lockTries, iters,
                 msgs, codes, delays, spawns, cycleNotes, gain, buildCycles,
                 marked, ranPast, sigCount, sigPc, sigSpawns, initOpen,
                 agentLevel, retryOf, steerResp, maxEver, lastSteerId, appPc,
                 appTries, appRead, twinText, lockFile, staleEntered,
                 justCalls, lastFault, chPc, stream, streamPos, buffer,
                 output, statusLine, atLineStart, shown, appliedMsgs,
                 planAttempt, cmdPc, cmdMessage, cmdBuild, sawSignal,
                 doneNote, twinContent, prompt, otherPc>>

JustifyBuilds(launched) ==
  /\ pc = "justify"
  /\ buildCycles' = IF launched THEN buildCycles + 1 ELSE buildCycles
  /\ justCalls' = justCalls + 1
  /\ prompt' = [twin |-> twinContent, prd |-> currentPrdContent]
  /\ Spawn(launched)
  /\ UNCHANGED <<maxStories, loop, maxMinutes, twinExists, prdExists, prdFile,
                 steerFile, twinBlocks, twinLock, stopping, totalBuilt, cycle,
                 attempt, elapsed, steerPrd, steerText, lockTries, summaries,
                 reported, iters, msgs, codes, delays, cycleNotes, gain,
                 ranPast, sigCount, sigPc, sigSpawns, initOpen, agentLevel,
                 retryOf, steerResp, maxEver, lastSteerId, appPc, appTries,
                 appRead, twinText, lockFile, staleEntered, lastFault, chPc,
                 stream, streamPos, buffer, output, statusLine, atLineStart,
                 shown, printed, appliedMsgs, planAttempt, cmdPc, cmdMessage,
                 cmdBuild, sawSignal, doneNote, twinContent,
                 currentPrdContent, otherPc>>

\* A non-loop run of quota 1 started with or without a message in steer.md.
InitPrompt ==
  /\ InitSteer
  /\ ~loop

NextPrompt ==
  \/ pc = "start" /\ UserSteer
  \/ Setup
  \/ Preflight
  \/ LoopTopReads
  \/ SteerRead
  \/ SteerCallFails
  \/ \E news \in NewStories(steerPrd), append \in BOOLEAN :
       SteerParsed(news, append)
  \/ AcquireTwinLock
  \/ \E ok \in BOOLEAN : SteerTwinWrite(ok)
  \/ SteerClear
  \/ SelectReads
  \/ \E launched \in BOOLEAN : JustifyBuilds(launched)
  \/ \E i \in OpenIdx(prdFile) : AgentEdit(i)
  \/ \E code \in {0, 1} : AgentClose(code)
  \/ \E launched \in BOOLEAN : Wake(launched)

SpecPrompt == InitPrompt /\ [][NextPrompt]_vars

\* ------------------------------------------- two builds in one directory
\* A second build() in the same working directory (a second build command,
\* or the build the steer command starts): it writes .twin-lock when it
\* starts, whether or not the file exists, and registers the 'exit' handler.
OtherSetup ==
  /\ otherPc = "idle"
  /\ otherPc' = "running"
  /\ runMarker' = TRUE
  /\ UNCHANGED <<maxStories, loop, maxMinutes, twinExists, prdExists, prdFile,
                 steerFile, twinBlocks, twinLock, pc, stopping, totalBuilt,
                 cycle, attempt, elapsed, exitCode, steerPrd, steerText,
                 lockTries, stopReason, exitFrom, summaries, reported, iters,
                 msgs, codes, delays, spawns, cycleNotes, gain, buildCycles,
                 marked, ranPast, sigCount, sigPc, sigSpawns, initOpen,
                 agentLevel, retryOf, steerResp, maxEver, lastSteerId, appPc,
                 appTries, appRead, twinText, lockFile, staleEntered,
                 justCalls, lastFault, chPc, stream, streamPos, buffer,
                 output, statusLine, atLineStart, shown, printed, appliedMsgs,
                 planAttempt, cmdPc, cmdMessage, cmdBuild, sawSignal,
                 doneNote, twinContent, currentPrdContent, prompt>>

\* The second build's process ends: its 'exit' handler unlinks .twin-lock.
OtherExit ==
  /\ otherPc = "running"
  /\ otherPc' = "exited"
  /\ runMarker' = FALSE
  /\ UNCHANGED <<maxStories, loop, maxMinutes, twinExists, prdExists, prdFile,
                 steerFile, twinBlocks, twinLock, pc, stopping, totalBuilt,
                 cycle, attempt, elapsed, exitCode, steerPrd, steerText,
                 lockTries, stopReason, exitFrom, summaries, reported, iters,
                 msgs, codes, delays, spawns, cycleNotes, gain, buildCycles,
                 marked, ranPast, sigCount, sigPc, sigSpawns, initOpen,
                 agentLevel, retryOf, steerResp, maxEver, lastSteerId, appPc,
                 appTries, appRead, twinText, lockFile, staleEntered,
                 justCalls, lastFault, chPc, stream, streamPos, buffer,
                 output, statusLine, atLineStart, shown, printed, appliedMsgs,
                 planAttempt, cmdPc, cmdMessage, cmdBuild, sawSignal,
                 doneNote, twinContent, currentPrdContent, prompt>>

NextTwo ==
  \/ Setup
  \/ Preflight
  \/ LoopTop
  \/ SteerRead
  \/ Select
  \/ \E launched \in BOOLEAN : Justify(launched)
  \/ \E i \in OpenIdx(prdFile) : AgentEdit(i)
  \/ \E code \in {0, 1} : AgentClose(code)
  \/ \E launched \in BOOLEAN : Wake(launched)
  \/ OtherSetup
  \/ OtherExit

SpecTwo == InitPrompt /\ [][NextTwo]_vars

\* ================================================================= claims
\* A step of the controller itself, as opposed to the delivery of a SIGINT.
ControllerStep == sigCount' = sigCount

\* A non-loop run without deadline, interrupt or launch failure has ended.
PlainRunEnded ==
  /\ pc = "exited"
  /\ ~loop
  /\ maxMinutes = 0
  /\ sigCount = 0
  /\ stopReason \in {"quota", "complete", "all_done"}

\* The last build of the run ended on its own: its last attempt exited 0, or
\* all three attempts were made.
NaturalEnd == codes # <<>> /\ (codes[Len(codes)] = 0 \/ Len(codes) = 3)

C2_FailFailSucceed ==
  codes = <<1, 1, 0>> =>
    /\ delays = <<10000, 30000>>
    /\ gain = 1
    /\ spawns = 3
    /\ cycleNotes = 0

C2_Witness == codes = <<1, 1, 0>> /\ pc = "top"

C4_InFlightInterruptDrains ==
  sigPc = "inflight" =>
    /\ pc \in {"agent", "backoff", "top", "exited"}
    /\ stopReason \in {"none", "interrupted", "quota", "hard_exit", "spawn_error"}
    /\ (pc = "top" \/ stopReason \in {"interrupted", "quota"}) => NaturalEnd
    /\ stopReason \in {"interrupted", "quota"} => exitFrom = "top"

\* The interrupt came during the first attempt; two more attempts were made
\* before the controller stopped.
C4_Witness ==
  /\ sigPc = "inflight"
  /\ sigSpawns = 1
  /\ spawns = 3
  /\ stopReason = "interrupted"

\* C5: a second SIGINT ends the process at once with exit code 1, wherever
\* the controller is.
C5_SecondInterruptExits ==
  /\ sigCount >= 2 => pc = "exited" /\ exitCode = 1 /\ stopReason = "hard_exit"
  /\ (sigCount = 1 /\ pc # "exited") => stopping

C5_Witness == stopReason = "hard_exit" /\ exitFrom = "agent" /\ sigCount = 2

\* C6: the controller stops for the deadline only at the check before a
\* build (an open item exists, the limit is set and reached); at that check
\* a reached limit stops it with no agent invocation; and a build in flight
\* past the limit is left to run: it goes on to its own end.
C6_DeadlineOnlyBeforeBuild ==
  /\ [](stopReason = "deadline" =>
          /\ exitFrom = "select"
          /\ TimeLimitMs # 0
          /\ elapsed * 60000 >= TimeLimitMs
          /\ Remaining(prdFile) > 0)
  /\ [][(/\ pc = "select"
         /\ pc' # pc
         /\ ControllerStep
         /\ Remaining(prdFile) > 0
         /\ TimeLimitMs # 0
         /\ elapsed * 60000 >= TimeLimitMs)
          => (pc' = "exited" /\ stopReason' = "deadline" /\ spawns' = spawns)]_vars
  /\ [][(pc \in InFlight /\ ControllerStep /\ elapsed * 60000 >= TimeLimitMs)
          => (pc' \in {"agent", "backoff", "top"} \/ stopReason' = "spawn_error")]_vars

\* A build ran past the limit and ended on its own; the next check stopped.
C6_Witness == stopReason = "deadline" /\ ranPast

\* C7 as stated: in loop mode, with the limit reached and no open item, the
\* controller starts no planner call and stops with reason deadline.
C7_DeadlineBeforePlanning ==
  [][(/\ pc = "select"
      /\ pc' # pc
      /\ ControllerStep
      /\ loop
      /\ Remaining(prdFile) = 0
      /\ TimeLimitMs # 0
      /\ elapsed * 60000 >= TimeLimitMs)
       => (pc' = "exited" /\ stopReason' = "deadline")]_vars

\* C7 as amended: the deadline is not evaluated before planning.  In loop
\* mode a ledger without open items always leads to the planner call, also
\* when the limit is reached; the run stops for the deadline only at the
\* check before a build, so with an open item in the ledger.
C7_PlanningIgnoresDeadline ==
  /\ [][(/\ pc = "select"
         /\ pc' # pc
         /\ ControllerStep
         /\ loop
         /\ Remaining(prdFile) = 0)
          => (pc' = "plan" /\ stopReason' = "none")]_vars
  /\ [](stopReason = "deadline" => Remaining(prdFile) > 0)

\* The planner is called after a build that ended past the limit.
C7_Witness == pc = "plan" /\ ranPast /\ elapsed * 60000 >= TimeLimitMs

\* C8: in loop mode a ledger without open items leads to the planner call;
\* when the planner adds nothing the controller stops at once as exhausted,
\* prints the summary and leaves the cycle count; when it adds items the
\* cycle count grows by one and control is back at the top of the loop.
C8_PlannerOutcome ==
  /\ [][(/\ pc = "select"
         /\ pc' # pc
         /\ ControllerStep
         /\ loop
         /\ Remaining(prdFile) = 0)
          => pc' = "plan"]_vars
  /\ [][(pc = "plan" /\ pc' # pc /\ ControllerStep)
          => IF Len(prdFile') = Len(prdFile)
               THEN /\ pc' = "exited"
                    /\ stopReason' = "exhausted"
                    /\ exitCode' = 0
                    /\ cycle' = cycle
                    /\ summaries' = summaries + 1
                    /\ spawns' = spawns
               ELSE /\ pc' = "top"
                    /\ cycle' = cycle + 1]_vars
  /\ [](stopReason = "exhausted" => exitFrom = "plan" /\ loop)

\* A first planner call added items, a later one added none.
C8_Witness == stopReason = "exhausted" /\ cycle = 2

\* C9: a non-loop run never calls the planner; when the ledger read in a
\* cycle has no open item it stops as complete, and when the ledger read
\* before the loop has none it exits with code 0.
C9_NonLoopNeverPlans ==
  /\ [](~loop => pc # "plan" /\ stopReason # "exhausted" /\ cycle = 1)
  /\ [][(/\ pc = "select"
         /\ pc' # pc
         /\ ControllerStep
         /\ ~loop
         /\ Remaining(prdFile) = 0)
          => (pc' = "exited" /\ stopReason' = "complete" /\ exitCode' = 0)]_vars
  /\ [][(/\ pc = "preflight"
         /\ pc' # pc
         /\ ControllerStep
         /\ twinExists /\ prdExists
         /\ ~loop
         /\ Remaining(prdFile) = 0)
          => (pc' = "exited" /\ stopReason' = "all_done" /\ exitCode' = 0)]_vars

\* A non-loop run whose items were all built stops as complete.
C9_Witness ==
  /\ ~loop
  /\ stopReason = "complete"
  /\ exitFrom = "select"
  /\ totalBuilt > 0

\* C10: when the steering model call fails or its response does not parse,
\* the intake ends with steer.md, prd.json, the taste profile and its lock
\* as they were (the lock never taken); and the next cycle's intake submits the same text again
\* (as long as nobody has written steer.md since it was read).
C10_FailedIntakeChangesNothing ==
  /\ [][(pc = "steerLLM" /\ pc' = "select")
          => /\ steerFile' = steerFile
             /\ prdFile' = prdFile
             /\ twinBlocks' = twinBlocks
             /\ twinLock' = twinLock
             /\ twinLock # "self"]_vars
  /\ [][(pc = "steer" /\ pc' # pc /\ retryOf # "none")
          => (pc' = "steerLLM" /\ steerText' = steerText)]_vars
  /\ [](retryOf # "none" => steerFile = steerText /\ steerFile # 0)

\* The text of an unparseable call is with the model again.
C10_Witness == pc = "steerLLM" /\ retryOf = "unparseable" /\ iters = 2

C13_SteeringIdsFresh ==
  [][(pc = "steerLLM" /\ prdFile' # prdFile)
       => \A i \in (Len(prdFile) + 1)..Len(prdFile') :
            /\ \A j \in 1..Len(prdFile) : prdFile'[i].id # prdFile[j].id
            /\ \A j \in (Len(prdFile) + 1)..(i - 1) : prdFile'[j].id < prdFile'[i].id
            /\ prdFile'[i].id > lastSteerId]_vars

\* C15: whatever status the model put in its response, every item the
\* steering intake appends is open in the ledger file.
C15_SteeringItemsOpen ==
  [][(pc = "steerLLM" /\ prdFile' # prdFile)
       => \A i \in (Len(prdFile) + 1)..Len(prdFile') :
            prdFile'[i].status = "open"]_vars

\* C14: the next id steering computes is above every id number the ledger
\* has ever held, also after the item with the highest id was removed.
C14_NextIdNeverReused ==
  pc = "steerLLM" => NextNum(steerPrd) > maxEver

\* C16: whatever the interleaving of controller cycles, steering and planner
\* writes and the edits of the agents of the builds at work in the directory,
\* an item that is done in prd.json is done there after every further write.
C16_DoneStaysDone ==
  [][\A i \in 1..Len(prdFile) :
       (i <= Len(prdFile') /\ prdFile[i].status = "done")
         => prdFile'[i].status = "done"]_vars

\* C17 as stated: whatever the timing, at most one steering application is
\* between acquireTwinLock returning and releaseTwinLock, and each one writes
\* the taste profile it has read with nothing written to it in between.
C17_MutualExclusion ==
  /\ Cardinality(InSection) <= 1
  /\ \A p \in Apps : appPc[p] = "write" => appRead[p] = twinText

\* C17 as amended: mutual exclusion holds as long as no application has gone
\* on after seeing all its attempts to create the lock file fail; one that
\* has is in the section together with the holder.
C17_ExclusionUnlessStale ==
  staleEntered = {} =>
    /\ Cardinality(InSection) <= 1
    /\ \A p \in Apps : appPc[p] = "write" => appRead[p] = twinText
    /\ \A p \in InSection : lockFile = p

\* An application that found the lock taken has waited, created the lock
\* after the holder's release and read the holder's block.
C17_Witness ==
  /\ staleEntered = {}
  /\ \E p \in Apps :
       /\ appPc[p] = "write"
       /\ appTries[p] > 0
       /\ Len(appRead[p]) > 1

\* C18: acquireTwinLock makes at most 5 attempts to create the lock file;
\* when the fifth finds the file present too it returns as if the lock were
\* acquired, leaving the file as it is; an attempt that fails for another
\* reason ends the call at once, the caller outside the section.
C18_BoundedAcquire ==
  /\ [](\A p \in Apps :
          /\ appTries[p] <= 5
          /\ appPc[p] = "acquire" => appTries[p] <= 4
          /\ p \in staleEntered => appTries[p] = 5)
  /\ [][\A p \in Apps :
          (appPc[p] = "acquire" /\ appTries[p] = 4 /\ appTries'[p] # appTries[p])
            => /\ appPc'[p] = "read"
               /\ appTries'[p] = 5
               /\ lockFile' = lockFile
               /\ lockFile # 0]_vars
  /\ [][\A p \in Apps :
          (appPc[p] = "acquire" /\ appTries[p] < 4 /\ appTries'[p] # appTries[p])
            => /\ appPc'[p] = "acquire"
               /\ appTries'[p] = appTries[p] + 1
               /\ lockFile' = lockFile]_vars
  /\ [][\A p \in Apps :
          (appPc'[p] = "failed" /\ appPc[p] # "failed")
            => /\ appPc[p] = "acquire"
               /\ lockFile' = lockFile
               /\ appTries' = appTries]_vars

\* An application is in the section after five failed creates, the lock
\* file still that of its holder.
C18_Witness ==
  \E p \in staleEntered :
    /\ appPc[p] = "read"
    /\ lockFile \notin {0, p}

\* C19: the run marker is there from the set-up of build() until the process
\* ends, and gone once the process has ended, whichever way it ended: quota,
\* complete, exhausted, deadline, first interrupt, second interrupt, no taste
\* profile, no ledger, nothing to build, or a failed launch of the agent.
C19_RunMarkerLifetime ==
  /\ pc \notin {"start", "exited"} => runMarker
  /\ pc = "exited" => ~runMarker
  /\ pc = "exited" =>
       stopReason \in {"quota", "complete", "exhausted", "deadline",
                       "interrupted", "hard_exit", "no_twin", "no_prd",
                       "all_done", "spawn_error"}

\* The launch of a retry has failed and the process has ended.
C19_Witness ==
  /\ pc = "exited"
  /\ stopReason = "spawn_error"
  /\ exitFrom = "backoff"
  /\ ~runMarker

\* The places of the steering intake.
C20_Intake == {"steer", "steerLLM", "steerLock", "steerTwin", "steerClear"}

\* C20: in every cycle the ledger is read and the selection made only once
\* the steering intake has ended (done or failed); a build is started only
\* from that selection, with an open item in the file as it is then; the
\* justification is asked for once per cycle, with the first agent
\* invocation after it and none for retries; and after a build the next
\* selection is again made after a new intake and a new read.
C20_CycleOrder ==
  /\ [][(pc' = "select" /\ pc # "select") => pc \in C20_Intake]_vars
  /\ [][(pc' \in {"justify", "plan"} /\ pc' # pc)
          => (pc = "select" /\ prdFile' = prdFile)]_vars
  /\ [][(pc' = "justify" /\ pc' # pc) => Remaining(prdFile) > 0]_vars
  /\ [][spawns' # spawns
          => \/ spawns' = 0
             \/ /\ spawns' = 1
                /\ pc = "justify"
                /\ justCalls = 0
                /\ justCalls' = 1
             \/ /\ spawns' = spawns + 1
                /\ spawns >= 1
                /\ pc = "backoff"
                /\ justCalls' = justCalls]_vars
  /\ [](justCalls <= 1 /\ (spawns > 0 => justCalls = 1))
  /\ [][(pc \in {"agent", "backoff"} /\ pc' \notin {"agent", "backoff", "exited"})
          => pc' = "top"]_vars
  /\ [][(pc = "top" /\ pc' \notin {"top", "exited"}) => pc' = "steer"]_vars

\* The second invocation of a build runs; the cycle's intake had failed and
\* its one justification has been asked for.
C20_Witness ==
  /\ pc = "agent"
  /\ spawns = 2
  /\ justCalls = 1
  /\ retryOf = "failed"

\* C21: a failure inside the steering intake (model call, unparseable
\* response, file read or write, lock) or inside the priority-justification
\* logging never stops the cycle: the intake is always left towards the
\* ledger selection, within the process, and the justification step is always
\* followed by the agent invocation (which itself may fail to launch).
C21_SideFailuresSwallowed ==
  /\ [][(pc \in C20_Intake /\ pc' \notin C20_Intake)
          => (pc' = "select" /\ exitCode' = exitCode /\ runMarker' = runMarker)]_vars
  /\ [][(pc = "justify" /\ pc' # pc)
          => \/ pc' = "agent" /\ spawns' = spawns + 1
             \/ pc' = "exited" /\ stopReason' = "spawn_error"]_vars
  /\ [][(lastFault' # lastFault /\ lastFault' # "none")
          => IF lastFault' = "justify"
               THEN pc' = "agent" \/ stopReason' = "spawn_error"
               ELSE pc' = "select"]_vars

\* The agent runs after a failed justification, in a cycle whose intake had
\* read the message and ended without clearing it.
C21_Witness ==
  /\ pc = "agent"
  /\ lastFault = "justify"
  /\ steerFile # 0
  /\ steerFile = steerText

\* C22: when the agent process cannot be launched, the process exits with
\* code 1 from the very step that tried the launch: the launch is not counted
\* as an attempt (no exit code noted, the attempt number, the count of builds
\* and the progress notes as they were), and nothing follows the exit: no
\* retry, no further cycle, build or planner call.
C22_LaunchFailureExits ==
  /\ [][(pc \in {"justify", "backoff"} /\ pc' # pc /\ spawns' = spawns
           /\ ControllerStep)
          => /\ pc' = "exited"
             /\ stopReason' = "spawn_error"
             /\ exitCode' = 1
             /\ attempt' = attempt
             /\ codes' = codes
             /\ delays' = delays
             /\ totalBuilt' = totalBuilt
             /\ cycleNotes' = cycleNotes
             /\ cycle' = cycle
             /\ iters' = iters]_vars
  /\ [][stopReason' = "spawn_error"
          => (stopReason = "none" /\ pc \in {"justify", "backoff"})]_vars
  /\ [][pc # "exited"]_vars

\* The first launch of the second pass has failed after a pass whose build
\* went through, and the process has ended with code 1.
C22_Witness ==
  /\ stopReason = "spawn_error"
  /\ exitFrom = "justify"
  /\ exitCode = 1
  /\ iters = 2
  /\ totalBuilt = 1

\* C23: nothing the agent channel shows to the user contains a sentinel
\* literal, however the agent's text is spread over records: inside one text
\* record, across two consecutive text records, more than once in a record,
\* or in the trailing line without newline that is handled at close.
C23_NoSentinelShown ==
  /\ ~Contains(shown, COMPLETION_SIGNAL)
  /\ ~Contains(shown, ALL_DONE_SIGNAL)

\* The texts of the well-formed text records among `lines`, concatenated.
RECURSIVE C24_Texts(_)
C24_Texts(lines) ==
  IF lines = <<>> THEN <<>>
  ELSE LET event == parseEvent(Head(lines))
       IN  (IF event.type = "text" /\ event.text # Undefined
              THEN event.text ELSE <<>>) \o C24_Texts(Tail(lines))

\* C24: the result string of a run of the channel is the concatenation, in
\* arrival order, of the texts of the well-formed text records of the
\* agent's output, whatever the cut into chunks and with or without a final
\* newline; malformed, blank and unrecognized lines add nothing and raise no
\* error.
C24_ResultIsConcatenation ==
  /\ chPc = "closed" => output = C24_Texts(Split(Decode(stream)))
  /\ chPc # "crashed"

\* C25: on every controlled stop of the build loop (quota reached, quota 0
\* included; complete; exhausted; deadline; interrupted) the controller has
\* printed exactly one summary, and it gives the number of items built, the
\* number of cycles and the elapsed time.
C25_SummaryOnEveryStop ==
  (pc = "exited"
     /\ stopReason \in {"quota", "complete", "exhausted", "deadline", "interrupted"})
    => /\ summaries = 1
       /\ printed.built = totalBuilt
       /\ printed.cycleNote = {cycle}
       /\ printed.time = {elapsed}

\* C26: once the loop has started, no failure on the primary build path is
\* an unhandled exception at the process boundary: with the ledger file, the
\* taste profile or the progress log deleted, unreadable or unparseable
\* between or during cycles, the run still ends in a retry-or-skip decision
\* or a controlled stop.
C26_NoUnhandledException ==
  stopReason # "crash"

\* C27: a steering message written while a build loop is active is never
\* lost.  A message that no intake has read yet (steer.md holds it and it is
\* not the text the last intake read) stays in steer.md until an intake of
\* this build reads it: it is not overwritten, not cleared, and the build
\* does not end before.
C27_NoSteeringLost ==
  [][(steerFile # 0 /\ steerFile # steerText)
       => (steerFile' = steerFile /\ pc' # "exited")]_vars

\* C28: each steering input is applied exactly once: the items derived from
\* one steering message are appended to the ledger at most once, also when a
\* step after the ledger write fails (the lock, the read or write of the
\* taste profile, the clearing of the steering file).
C28_AppliedAtMostOnce ==
  [][(pc = "steerLLM" /\ prdFile' # prdFile) => steerText \notin appliedMsgs]_vars

\* C29: when the planner's model call has failed on all of its attempts, or
\* its response cannot be parsed, the planner returns an empty list with the
\* ledger file as it was, and the loop-mode controller stops through the
\* exhausted path (summary, exit code 0), not through an error; the planner
\* gives up on the call only after PLAN_RETRIES + 1 failures, and a failed
\* attempt writes nothing.
C29_PlannerFailureExhausts ==
  /\ [][(pc = "plan" /\ pc' # pc /\ lastFault' \in {"plan_failed", "plan_unparseable"})
          => /\ prdFile' = prdFile
             /\ pc' = "exited"
             /\ stopReason' = "exhausted"
             /\ exitCode' = 0
             /\ summaries' = summaries + 1
             /\ printed' = summary(totalBuilt, cycle, elapsed)
             /\ loop]_vars
  /\ [][(pc = "plan" /\ lastFault' = "plan_failed" /\ lastFault # "plan_failed")
          => planAttempt = PLAN_RETRIES]_vars
  /\ [][(pc = "plan" /\ planAttempt' > planAttempt)
          => (prdFile' = prdFile /\ pc' = "plan")]_vars
  /\ [](stopReason = "exhausted" => (pc = "exited" /\ exitCode = 0 /\ summaries = 1))

\* The planner's third call has failed after a cycle that built an item, and
\* the run has stopped as exhausted.
C29_Witness ==
  /\ pc = "exited"
  /\ stopReason = "exhausted"
  /\ lastFault = "plan_failed"
  /\ planAttempt = PLAN_RETRIES
  /\ totalBuilt >= 1

\* C30: the steer command with a message always writes it to the steering
\* file; at its check it then starts a build of its own, with quota 1 and
\* non-loop, exactly when no run marker exists at that moment, and starts
\* none when one exists; without a message it writes nothing and starts
\* nothing.
C30_SteerCommand ==
  /\ [][(cmdPc = "idle" /\ cmdPc' # cmdPc)
          => IF cmdMessage' = 0
               THEN /\ cmdPc' = "done"
                    /\ steerFile' = steerFile
                    /\ cmdBuild' = cmdBuild
               ELSE (/\ cmdPc' = "written"
                     /\ steerFile' = cmdMessage'
                     /\ cmdBuild' = cmdBuild)]_vars
  /\ [][(cmdPc = "written" /\ cmdPc' # cmdPc)
          => IF runMarker
               THEN cmdPc' = "done" /\ cmdBuild' = cmdBuild
               ELSE (/\ cmdPc' = "building"
                     /\ cmdBuild' = [maxStories |-> 1, loop |-> FALSE,
                                     maxMinutes |-> 0, started |-> TRUE])]_vars
  /\ [][cmdBuild' # cmdBuild => (cmdPc = "written" /\ ~cmdBuild.started)]_vars
  /\ []((cmdPc = "done" /\ cmdMessage = 0) => (~cmdBuild.started /\ msgs = 0))
  /\ [][(cmdPc \in {"done", "building"}) => (cmdPc' = cmdPc)]_vars

\* The steer command wrote its message while the other build ran, made its
\* check after that build had ended, and has started a build of its own.
C30_Witness ==
  /\ cmdPc = "building"
  /\ cmdBuild.started
  /\ pc = "exited"
  /\ stopReason = "quota"
  /\ cmdMessage = 1


\* C31: a non-loop build started with a message in steer.md and a ledger
\* whose items are all done runs the steering intake on that message before
\* it stops.
C31_QueuedSteeringConsumed ==
  (pc = "exited" /\ ~loop /\ msgs > 0 /\ initOpen = 0) => steerText = msgs


\* C32: once a first SIGINT has been recorded, the controller starts no agent
\* build for a new item: when the signal found no build in flight, no agent
\* is spawned after it, wherever in the pass of the loop it arrived.
C32_NoNewBuildAfterInterrupt ==
  (sigCount >= 1 /\ sigPc = "idle") => spawns = sigSpawns


\* C33: in loop and non-loop mode alike, totalBuilt never exceeds maxStories;
\* the controller is past the top-of-loop check (intake, selection, planning,
\* agent build) only while totalBuilt is below maxStories, so no agent is
\* spawned for a new item at totalBuilt = maxStories; totalBuilt never
\* decreases, grows by one at a time and at most once per pass of the loop.
C33_QuotaBound ==
  /\ [](totalBuilt <= maxStories)
  /\ [](pc \notin {"start", "preflight", "top", "exited"} => totalBuilt < maxStories)
  /\ [][(pc = "justify" /\ spawns' > spawns) => totalBuilt' < maxStories]_vars
  /\ [][totalBuilt' \in {totalBuilt, totalBuilt + 1}]_vars
  /\ [](gain <= 1)

\* A loop-mode run has planned a second batch, built the quota of two items
\* over two cycles and stopped.
C33_Witness ==
  /\ pc = "exited"
  /\ loop
  /\ stopReason = "quota"
  /\ maxStories = 2
  /\ totalBuilt = 2
  /\ cycle = 2


C35_EventuallyStops ==
  <>(pc = "exited")


\* C36: whenever an agent is spawned, for a first attempt or a retry, the
\* prompt it is given holds the taste profile as it is on disk then, with any
\* block the intake of the same pass appended, and the ledger as it is on
\* disk then.
C36_PromptIsCurrent ==
  [][(spawns' > spawns)
       => (prompt'.twin = twinBlocks' /\ prompt'.prd = prdFile')]_vars


\* C37: while a build process that has written its run marker is running in
\* the directory, .twin-lock exists, also when two builds overlap and one of
\* them ends before the other.
C37_MarkerWhileAnyRuns ==
  (pc \notin {"start", "exited"} \/ otherPc = "running") => runMarker


\* C38: <twin>.lock is removed only by the process that created it: a release
\* that removes the file is the release of the process whose pid the file
\* holds, also for a process that went ahead after its last failed create.
C38_OnlyCreatorRemoves ==
  [][(\A p \in Apps :
        (appPc[p] = "release" /\ appPc'[p] = "done" /\ lockFile # 0 /\ lockFile' = 0)
          => lockFile = p)]_vars


\* The blocks of a profile text.
C39_Blocks(text) == {text[k] : k \in 1..Len(text)}

====
